---- MODULE Spec2Model ----
(***************************************************************************)
(* Verification model of the AltDragon development harness:                *)
(*   - the in-process plugin registry and event bus                        *)
(*     (src/core/server/plugin-manager.ts, client core entry point),       *)
(*   - the file watcher / debounced rebuild coordinator                    *)
(*     (scripts/hot-reload.js),                                            *)
(*   - the path-to-owner resolution (scripts/hot-reload.js and             *)
(*     src/core/server/hot-reload.ts),                                     *)
(*   - the build passes and the TypeScript compile step (scripts/build.js  *)
(*     and its earlier revision),                                          *)
(*   - the server-side reload entry point (src/core/server/hot-reload.ts), *)
(*   - the client plugin loader (src/core/client/plugin-loader.ts) and the *)
(*     managed UI webviews of the client core,                             *)
(*   - the development script without hot reloading, the propagation of    *)
(*     manifest fields into metadata.json, and the deploy script           *)
(*     (scripts/dev.js).                                                   *)
(* Each subsystem has its own specification over the shared variables.     *)
(***************************************************************************)
EXTENDS Integers, Sequences, FiniteSets, TLC

VARIABLES
  \* ---- plugin registry (plugin-manager.ts) ----
  coreExposed,     \* TRUE once initPluginManager has set global.core
  plugins,         \* the Map `plugins`: id -> record
  hookLog,         \* lifecycle hooks invoked so far, in order
  callLog,         \* registerPlugin calls made so far, in order
  lastCall,        \* what the most recent registerPlugin call did
  \* ---- event bus (plugin-manager.ts coreAPI.on/emit, client emitEvent) ----
  eventHandlers,   \* per side, the Map `eventHandlers`: name -> handler list
  lastEmit,        \* what the most recent emit did
  busOps,          \* number of on / emit calls made so far
  \* ---- path-to-owner resolution (getResourceNameFromPath, both copies) ----
  filePath,        \* the path handed to the function, as a token string
  resolved,        \* the owners both copies returned for it
  \* ---- file watcher / rebuild coordinator (scripts/hot-reload.js) ----
  wpc,             \* where the watcher process is: boot, idle, building, crashed
  now,             \* the clock, in milliseconds
  ioQueue,         \* filesystem events delivered but not yet handled
  pendingReloads,  \* the Set `pendingReloads`, in insertion order
  reloadTimer,     \* the debounce timer `reloadTimer`
  fullPass,        \* what the initial full build did
  cycle,           \* the rebuild cycle that last fired
  reloadLog,       \* the resource lists handed to triggerReload, in order
  burst,           \* per owner, the current burst of accepted events
  evCount,         \* number of filesystem events delivered so far
  hostLink,        \* what the watcher has exchanged with the running host
  ledger,          \* bookkeeping of events: times, owners accepted, owed
  \* ---- TypeScript compile step (scripts/build.js, earlier build script) --
  tree,            \* the source subtree handed to compileTypeScript
  compiled,        \* what each revision of compileTypeScript wrote
  \* ---- build passes (scripts/build.js, scripts/hot-reload.js) ----
  source,          \* the source tree under src/
  output,          \* the output tree under resources/: path -> content
  runs,            \* the build runs made so far
  \* ---- server-side reload (src/core/server/hot-reload.ts reloadPlugin) ----
  reloadingResources, \* the Map `reloadingResources`: plugin id -> timestamp
  serverNow,       \* Date.now() in the server process, in milliseconds
  reloadCalls,     \* per plugin id, when reloadPlugin was last called
  lastReload,      \* what the most recent reloadPlugin call did
  reloadCount,     \* number of reloadPlugin calls made so far
  \* ---- client plugin loader (src/core/client/plugin-loader.ts) ----
  serverListeners, \* per server event, the listeners alt.onServer has added
  keyListeners,    \* the listeners alt.on('keyup') has added
  initialised,     \* the plugins that have received plugin:init
  htmlUiVisible,   \* the flag `htmlUiVisible`
  lastDelivery,    \* what the most recent server event invoked
  loaderOps,       \* number of plugin:init / plugin:reload events so far
  \* ---- development script without hot reloading (startRegularDev) ----
  devPc,           \* where the development script is
  buildProc,       \* the spawned build process
  serverProc,      \* the spawned host server process
  devExit,         \* the exit code of the development script, once it has exited
  \* ---- metadata propagation (buildPlugin of build.js and of hot-reload.js) ----
  srcManifest,        \* a plugin's source resource.toml, as the fields it declares
  metaOut,         \* the metadata.json the last buildPlugin wrote for it
  \* ---- managed UI webviews (client core createUIWebView / closeUIWebView) ----
  activeWebviews,  \* the Map `activeWebviews`: plugin id -> webview and its options
  cursorShown,     \* whether the host shows the cursor
  controlsEnabled, \* whether the host has game controls enabled
  cursorTimers,    \* the delayed showCursor(true) callbacks still pending
  lastClosed,      \* the plugin ids whose webview has been closed
  webviewOps,      \* number of createUIWebView calls made so far
  \* ---- deploy script (scripts/dev.js main) ----
  pluginsTree,     \* the entries of plugins/: name -> what the entry is
  mainTree,        \* the directories under resources/main, each with what it holds
  serverToml,      \* server.toml, as its sequence of lines
  tomlBefore,      \* server.toml as it was when the script started
  deployed,        \* the lists `validPlugins` and `deployedPlugins`
  deployPc         \* the step of main() that runs next

registryVars == <<coreExposed, plugins, hookLog, callLog, lastCall>>

busVars == <<eventHandlers, lastEmit, busOps>>

pathVars == <<filePath, resolved>>

watcherVars ==
  <<wpc, now, ioQueue, pendingReloads, reloadTimer, fullPass, cycle,
    reloadLog, burst, evCount, hostLink, ledger>>

compileVars == <<tree, compiled>>

buildVars == <<source, output, runs>>

reloadVars ==
  <<reloadingResources, serverNow, reloadCalls, lastReload, reloadCount>>

loaderVars ==
  <<serverListeners, keyListeners, initialised, htmlUiVisible, lastDelivery, loaderOps>>

devVars ==
  <<devPc, buildProc, serverProc, devExit>>

metaVars ==
  <<srcManifest, metaOut>>

webviewVars ==
  <<activeWebviews, cursorShown, controlsEnabled, cursorTimers, lastClosed, webviewOps>>

deployVars ==
  <<pluginsTree, mainTree, serverToml, tomlBefore, deployed, deployPc>>

vars ==
  <<registryVars, busVars, pathVars, watcherVars, compileVars, buildVars,
    reloadVars,
    loaderVars,
    devVars,
    metaVars,
    webviewVars,
    deployVars>>

\* What each subsystem leaves alone.
notRegistryVars ==
  <<busVars, pathVars, watcherVars, compileVars, buildVars,
    reloadVars,
    loaderVars,
    devVars,
    metaVars,
    webviewVars,
    deployVars>>
notBusVars ==
  <<registryVars, pathVars, watcherVars, compileVars, buildVars,
    reloadVars,
    loaderVars,
    devVars,
    metaVars,
    webviewVars,
    deployVars>>
notPathVars ==
  <<registryVars, busVars, watcherVars, compileVars, buildVars,
    reloadVars,
    loaderVars,
    devVars,
    metaVars,
    webviewVars,
    deployVars>>
notWatcherVars ==
  <<registryVars, busVars, pathVars, compileVars, buildVars,
    reloadVars,
    loaderVars,
    devVars,
    metaVars,
    webviewVars,
    deployVars>>
notCompileVars ==
  <<registryVars, busVars, pathVars, watcherVars, buildVars,
    reloadVars,
    loaderVars,
    devVars,
    metaVars,
    webviewVars,
    deployVars>>
notBuildVars ==
  <<registryVars, busVars, pathVars, watcherVars, compileVars,
    reloadVars,
    loaderVars,
    devVars,
    metaVars,
    webviewVars,
    deployVars>>
notReloadVars ==
  <<registryVars, busVars, pathVars, watcherVars, compileVars,
    buildVars,
    loaderVars,
    devVars,
    metaVars,
    webviewVars,
    deployVars>>
notLoaderVars ==
  <<registryVars, busVars, pathVars, watcherVars, compileVars,
    buildVars, reloadVars,
    devVars,
    metaVars,
    webviewVars,
    deployVars>>
\* What the build process started by the development script leaves alone.
notDevBuildVars ==
  <<registryVars, busVars, pathVars, watcherVars, compileVars, reloadVars,
    loaderVars, runs,
    metaVars,
    webviewVars,
    deployVars>>
notDevVars ==
  <<registryVars, busVars, pathVars, watcherVars, compileVars,
    buildVars, reloadVars, loaderVars,
    metaVars,
    webviewVars,
    deployVars>>
notMetaVars ==
  <<registryVars, busVars, pathVars, watcherVars, compileVars,
    buildVars, reloadVars, loaderVars, devVars,
    webviewVars,
    deployVars>>
notWebviewVars ==
  <<registryVars, busVars, pathVars, watcherVars, compileVars,
    buildVars, reloadVars, loaderVars, devVars, metaVars,
    deployVars>>
notDeployVars ==
  <<registryVars, busVars, pathVars, watcherVars, compileVars,
    buildVars, reloadVars, loaderVars, devVars, metaVars, webviewVars>>

----------------------------------------------------------------------------
(* Path-to-owner resolution: strings                                        *)

\* A path string is modelled as a sequence of tokens: directory or file
\* names, and the two separator characters.
Slash == "/"
Backslash == "\\"
Separators == {Slash, Backslash}

\* Names paths are built from. "xsrc" is a name that ends in the characters
\* "src"; "foo" stands for a plugin directory or any other name.
Names == {"src", "xsrc", "plugins", "core", "foo"}

\* Bound on the number of names in a path.
MaxSegs == 5

\* The string made of the names segs joined by the separator sep.
Tokens(segs, sep) ==
  [i \in 1..(2 * Len(segs) - 1) |->
     IF i % 2 = 1 THEN segs[(i + 1) \div 2] ELSE sep]

\* The names of a token string, separators dropped.
Segments(t) == [k \in 1..((Len(t) + 1) \div 2) |-> t[2 * k - 1]]

\* No owner (null).
NoOwner == << >>

Unresolved == [watcher |-> NoOwner, server |-> NoOwner, done |-> FALSE]

InitPathVars ==
  /\ filePath = << >>
  /\ resolved = Unresolved

----------------------------------------------------------------------------
(* File watcher: state                                                      *)

\* setTimeout(..., 500): the quiet interval of the debounce timer.
QuietInterval == 500

\* Granularity of the clock and the time explored, in milliseconds.
TickMs == 250
MaxTime == 1500

\* Bound on the number of filesystem events delivered.
MaxEvents == 3

\* The plugin directories under src/plugins.
PluginDirs == <<"a", "b">>

\* The owner ids the watcher can come to rebuild.
KnownOwners == {<<"core">>} \cup {<<PluginDirs[i]>> : i \in DOMAIN PluginDirs}

\* Paths the watcher reports: a file of plugin a, a file of the core, a
\* file outside both, and the plugin a file as Windows writes it.
WatchedPaths ==
  { Tokens(<<"src", "plugins", "a", "server", "index.ts">>, Slash),
    Tokens(<<"src", "core", "server", "index.ts">>, Slash),
    Tokens(<<"src", "types", "index.d.ts">>, Slash),
    Tokens(<<"src", "plugins", "a", "server", "index.ts">>, Backslash) }

\* chokidar event kinds the watcher subscribes to.
EventKinds == {"change", "add"}

NoBurst == [n |-> 0, last |-> 0, builds |-> 0]

NoCycle ==
  [n |-> 0, snapshot |-> << >>, idx |-> 1, built |-> << >>,
   state |-> "none", reloaded |-> FALSE,
   firedAt |-> 0, sinceAny |-> 0, sinceAccepted |-> 0, accepted |-> {}]

\* No connection to the host: no request sent, no acknowledgement received.
NoLink == [requests |-> << >>, acks |-> << >>]

\* lastAny / lastAccepted: when the latest event, and the latest event with
\* an owner, was handled; accepted: the owners accepted since the last
\* cycle fired; owed: the owners with a delivered change that no rebuild
\* of theirs has started after.
NoLedger == [lastAny |-> 0, lastAccepted |-> 0, accepted |-> {}, owed |-> {}]

NoPass == [done |-> FALSE, coreOk |-> FALSE, attempted |-> << >>, failed |-> << >>]

InitWatcherVars ==
  /\ wpc = "boot"
  /\ now = 0
  /\ ioQueue = << >>
  /\ pendingReloads = << >>
  /\ reloadTimer = [armed |-> FALSE, due |-> 0]
  /\ fullPass = NoPass
  /\ cycle = NoCycle
  /\ reloadLog = << >>
  /\ burst = [o \in KnownOwners |-> NoBurst]
  /\ evCount = 0
  /\ hostLink = NoLink
  /\ ledger = NoLedger

----------------------------------------------------------------------------
(* TypeScript compile step: state                                           *)

\* File names of a source subtree: a base name and what follows it.
BaseNames == {"index", "util", "types"}
Extensions == {".ts", ".d.ts", ".json"}

\* Bound on the number of files in the subtree.
MaxFiles == 3

NotCompiled == [done |-> FALSE, attempted |-> << >>, written |-> {}]

NoTree == [exists |-> FALSE, entries |-> << >>]

InitCompileVars ==
  /\ tree = NoTree
  /\ compiled = [batch |-> NotCompiled, each |-> NotCompiled]

----------------------------------------------------------------------------
(* Build passes: state                                                      *)

\* Bounds on the number of build runs and of source edits explored.
MaxRuns == 3
MaxEdits == 1

\* A file that does not exist.
NoFile == [kind |-> "absent"]

\* deps lists a plugin's resource.toml can declare; the empty list is a
\* manifest without a deps entry the scripts' pattern matches.
DepLists == {<< >>, <<"core">>, <<"x">>, <<"x", "core">>}

PluginTomls == {NoFile} \cup {[kind |-> "toml", deps |-> d] : d \in DepLists}

\* A plugin's client directory: missing, compiling, or with a compile error.
ClientStates == {"none", "ok", "bad"}

PluginSources == [toml : PluginTomls, client : ClientStates]

\* The resource.toml buildCore writes into src/core when there is none.
DefaultCoreToml ==
  [kind |-> "toml", clientFiles |-> <<<<"client", "*">>>>, deps |-> << >>]

CoreSources ==
  [dir : BOOLEAN, toml : {NoFile, DefaultCoreToml}, serverBad : BOOLEAN]

\* Plugin b is either a plain compiling plugin or one that declares a
\* dependency and has a compile error.
OtherPluginSources ==
  { [toml |-> NoFile, client |-> "ok"],
    [toml |-> [kind |-> "toml", deps |-> <<"x">>], client |-> "bad"] }

Sources ==
  { [core |-> c, plugins |-> [p \in {"a", "b"} |-> IF p = "a" THEN pa ELSE pb]] :
      c \in CoreSources, pa \in PluginSources, pb \in OtherPluginSources }

Dir == [kind |-> "dir"]
\* A compiled file, with the bundling options it was produced under.
Js(options) ==
  [kind |-> "js", platform |-> options.platform,
   external |-> options.external]

NoRun == [script |-> "none", source |-> << >>, output |-> << >>]
NoRepeat == [seen |-> FALSE, first |-> << >>, second |-> << >>]

InitBuildVars ==
  /\ source = [core |-> [dir |-> TRUE, toml |-> DefaultCoreToml,
                         serverBad |-> FALSE],
               plugins |-> [p \in {"a", "b"} |->
                              [toml |-> NoFile, client |-> "none"]]]
  /\ output = << >>
  /\ runs = [count |-> 0, edits |-> 0, last |-> NoRun, repeat |-> NoRepeat]

----------------------------------------------------------------------------
(* Event bus: state                                                         *)

\* The two processes that each hold an event bus.
Sides == {"server", "client"}

\* Event names used as inputs.
EventNames == {"E", "F"}

\* What a registered handler does when invoked: return, throw, or register
\* one more (returning) handler for the same event name through on().
HandlerKinds == {"ok", "throws", "adds"}

\* Bounds on the number of on() and emit() calls explored.
MaxOn == 3
MaxEmit == 2

NoEmit ==
  [side |-> "", name |-> "", before |-> << >>, after |-> << >>,
   invoked |-> << >>, escaped |-> FALSE]

\* A name that is not a key of the Map reads as the empty list
\* (eventHandlers.get(eventName) || []); on() creates the key on first use.
InitBusVars ==
  /\ eventHandlers = [s \in Sides |-> [n \in EventNames |-> << >>]]
  /\ lastEmit = NoEmit
  /\ busOps = [on |-> 0, emit |-> 0]


----------------------------------------------------------------------------
(* Plugin registry: state                                                   *)

\* Plugin ids used as inputs.
PluginIds == {"core", "a"}

\* Bound on the number of registerPlugin calls explored.
MaxCalls == 3

\* An empty Map.
EmptyMap == [x \in {} |-> 0]

\* Map.set(key, value)
MapSet(m, k, v) == [x \in (DOMAIN m) \cup {k} |-> IF x = k THEN v ELSE m[x]]

NoCall ==
  [id |-> "", deps |-> {}, accepted |-> FALSE, unloadInvoked |-> FALSE,
   loadInvoked |-> FALSE, unloadThrew |-> FALSE, loadThrew |-> FALSE,
   escaped |-> FALSE]

InitRegistryVars ==
  /\ coreExposed = FALSE
  /\ plugins = EmptyMap
  /\ hookLog = << >>
  /\ callLog = << >>
  /\ lastCall = NoCall

----------------------------------------------------------------------------
(* Server-side reload: state                                                *)

\* The window inside which reloadPlugin means to skip a repeated call.
ReloadWindow == 1000

\* Clock step and horizon, and the number of reloadPlugin calls explored.
ReloadTickMs == 500
MaxReloadTime == 1500
MaxReloads == 3

ReloadIds == {"core", "a"}

NeverCalled == 0 - 1

NoReload ==
  [id |-> "none", at |-> 0, previous |-> NeverCalled, skipped |-> FALSE,
   events |-> << >>]

InitReloadVars ==
  /\ reloadingResources = EmptyMap
  /\ serverNow = 0
  /\ reloadCalls = [id \in ReloadIds |-> NeverCalled]
  /\ lastReload = NoReload
  /\ reloadCount = 0

----------------------------------------------------------------------------
(* Client plugin loader: state                                              *)

\* Bound on the number of plugin:init and plugin:reload events explored.
MaxLoaderOps == 4

\* Plugin ids the server can name in plugin:init and plugin:reload; the
\* loader registers the first two, "other" is any id it does not know.
LoaderPluginIds == {"example-ts", "example-html", "other"}

\* Server events the example plugins subscribe to.
ServerEvents ==
  {"example:notification", "example:giveWeapons", "example:toggleUI"}

NoDelivery == [event |-> "none", invoked |-> << >>, ready |-> {}]

\* The state after initPluginLoader: loadAllPlugins has registered the
\* plugin:<id>:init and plugin:<id>:reload handlers of both example
\* plugins on the core bus; no plugin has subscribed to a server event yet.
InitLoaderVars ==
  /\ serverListeners = [ev \in ServerEvents |-> << >>]
  /\ keyListeners = << >>
  /\ initialised = {}
  /\ htmlUiVisible = FALSE
  /\ lastDelivery = NoDelivery
  /\ loaderOps = 0

----------------------------------------------------------------------------
(* Development script: state                                                *)

\* Exit codes a process can end with.
ExitCodes == {0, 1}

NoProcess == [state |-> "none", code |-> 0, ok |-> FALSE]

NotExited == 0 - 1

InitDevVars ==
  /\ devPc = "start"
  /\ buildProc = NoProcess
  /\ serverProc = NoProcess
  /\ devExit = NotExited

----------------------------------------------------------------------------
(* Metadata propagation: state                                              *)

\* A field the manifest does not declare; a key the metadata does not have.
Undeclared == "undeclared"

\* The plugin whose manifest is read (its directory name).
MetaPluginId == "a"

\* Source manifests: no file, or a file declaring any of the five fields.
Manifests ==
  {NoFile} \cup
  [kind : {"toml"}, name : {Undeclared, "Plugin A"},
   version : {Undeclared, "2.0.0"}, author : {Undeclared, "someone"},
   description : {Undeclared, "does things"}, deps : DepLists]

NoMetadata == [written |-> FALSE, by |-> "none"]

InitMetaVars ==
  /\ srcManifest = NoFile
  /\ metaOut = NoMetadata

----------------------------------------------------------------------------
(* Managed UI webviews: state                                               *)

\* Bound on the number of createUIWebView calls explored.
MaxWebviewOps == 3

\* Plugin ids that open a managed webview.
WebviewIds == {"main", "stats"}

\* The state when the client core has started: no webview, the cursor
\* hidden, game controls enabled.
InitWebviewVars ==
  /\ activeWebviews = EmptyMap
  /\ cursorShown = FALSE
  /\ controlsEnabled = TRUE
  /\ cursorTimers = << >>
  /\ lastClosed = {}
  /\ webviewOps = 0

----------------------------------------------------------------------------
(* Deploy script: state                                                     *)

\* Entries of plugins/, in the order readdirSync returns them.
DeployNames == <<"a", "b">>

\* What an entry of plugins/ can be: missing, a plain file, a directory
\* without resource.toml, a directory with one.
EntryKinds == {"none", "file", "dir", "plugin"}

\* Lines of server.toml, by what the script's tests see in them.
TextLine(text) == [kind |-> "text", name |-> text, comma |-> FALSE]
StartLine == [kind |-> "start", name |-> "resources = [", comma |-> FALSE]
FixedEntry == [kind |-> "entry", name |-> "core", comma |-> TRUE]
MarkerLine ==
  [kind |-> "marker", name |-> "# Plugins will be automatically added here",
   comma |-> FALSE]
PluginLine(plugin, comma) ==
  [kind |-> "plugin", name |-> plugin, comma |-> comma]
CloseLine == [kind |-> "close", name |-> "]", comma |-> FALSE]

\* The plugin entries a server.toml holds from an earlier deployment.
StaleEntries ==
  { << >>,
    <<PluginLine("a", FALSE)>>,
    <<PluginLine("old", FALSE)>>,
    <<PluginLine("a", TRUE), PluginLine("old", FALSE)>> }

\* Settings around the resources array: none, a plain setting, or another
\* array with a closing bracket of its own.
OtherSettings ==
  { << >>,
    <<TextLine("name")>>,
    <<TextLine("modules = ["), TextLine("js-module"), CloseLine>> }

\* server.toml files: settings, the resources array with its fixed entry,
\* the marker comment (hasMarker) and earlier plugin entries, then the
\* closing bracket and further settings.
ServerTomls ==
  { header \o <<StartLine, FixedEntry>> \o
    (IF hasMarker THEN <<MarkerLine>> ELSE << >>) \o stale \o
    <<CloseLine>> \o trailer :
      hasMarker \in BOOLEAN, stale \in StaleEntries,
      header \in OtherSettings, trailer \in OtherSettings }

\* Directories resources/main can hold from an earlier deployment.
StaleMainTrees == SUBSET {"a", "old"}

InitDeployVars ==
  /\ pluginsTree = [i \in {} |-> "none"]
  /\ mainTree = {}
  /\ serverToml = << >>
  /\ tomlBefore = << >>
  /\ deployed = << >>
  /\ deployPc = "idle"

----------------------------------------------------------------------------
(* Plugin registry: registerPlugin                                          *)

\* isPluginLoaded(pluginId)
isPluginLoaded(pluginId) == pluginId \in DOMAIN plugins

\* initPluginManager(): builds coreAPI and exposes it as global.core; the
\* loadAllPlugins it then calls only scans directories and logs, it registers
\* nothing, so the registry is still empty afterwards.
initPluginManager ==
  /\ ~coreExposed
  /\ coreExposed' = TRUE
  /\ UNCHANGED <<plugins, hookLog, callLog, lastCall>>
  /\ UNCHANGED notRegistryVars

\* Whether registerPlugin runs the stored record's onUnload: the id is
\* already a key and the stored lifecycle has the optional hook.
RunsUnload(id, registry) == id \in DOMAIN registry /\ registry[id].hasOnUnload

UnloadExisting_Never(id, registry, log) == log

\* The first block of registerPlugin: call the existing record's onUnload
\* inside try/catch. Returns the hook log after the block.
UnloadExisting(id, registry, log) ==
  IF RunsUnload(id, registry)
    THEN Append(log, [hook |-> "onUnload", reg |-> registry[id].reg])
    ELSE log

DependenciesLoaded_Skip(deps, registry) == TRUE

DependenciesLoaded_Any(deps, registry) ==
  deps = {} \/ \E d \in deps : d \in DOMAIN registry

\* The dependency check of registerPlugin: a dependency that is not a key of
\* the registry aborts the registration (early return).
DependenciesLoaded(deps, registry) == \A d \in deps : d \in DOMAIN registry

\* A hook called with no try around it.
InvokeHook_NoCatch(throws) == IF throws THEN "propagated" ELSE "returned"

\* A lifecycle hook called inside try/catch: an exception is logged.
InvokeHook(throws) == IF throws THEN "caught" ELSE "returned"

\* registerPlugin(metadata, lifecycle), reached through global.core.
\* metadata = (id, deps); lifecycle = (hasOnLoad, hasOnUnload); a hook that
\* runs may throw (unloadThrows, loadThrows).  An exception that leaves the
\* onUnload call ends registerPlugin before the dependency check; one that
\* leaves the onLoad call ends it after the record is stored.
registerPlugin(id, deps, hasOnLoad, hasOnUnload, unloadThrows, loadThrows) ==
  LET reg == Len(callLog) + 1
      runUnload == RunsUnload(id, plugins)
      log1 == UnloadExisting(id, plugins, hookLog)
      unloadEscaped == runUnload /\ InvokeHook(unloadThrows) = "propagated"
      ok == ~unloadEscaped /\ DependenciesLoaded(deps, plugins)
      runLoad == ok /\ hasOnLoad
      loadEscaped == runLoad /\ InvokeHook(loadThrows) = "propagated"
  IN /\ coreExposed
     /\ Len(callLog) < MaxCalls
     /\ callLog' = Append(callLog, [id |-> id, accepted |-> ok,
                                    hasOnLoad |-> hasOnLoad,
                                    hasOnUnload |-> hasOnUnload])
     /\ IF ok
          THEN /\ plugins' = MapSet(plugins, id,
                               [deps |-> deps, reg |-> reg,
                                hasOnLoad |-> hasOnLoad,
                                hasOnUnload |-> hasOnUnload])
               /\ hookLog' = IF runLoad
                               THEN Append(log1, [hook |-> "onLoad", reg |-> reg])
                               ELSE log1
          ELSE /\ plugins' = plugins
               /\ hookLog' = log1
     /\ lastCall' = [id |-> id, deps |-> deps, accepted |-> ok,
                     unloadInvoked |-> runUnload, loadInvoked |-> runLoad,
                     unloadThrew |-> runUnload /\ unloadThrows,
                     loadThrew |-> runLoad /\ loadThrows,
                     escaped |-> unloadEscaped \/ loadEscaped]
     /\ UNCHANGED coreExposed
     /\ UNCHANGED notRegistryVars

NextRegistry ==
  \/ initPluginManager
  \/ \E id \in PluginIds, deps \in SUBSET PluginIds,
        hasOnLoad \in BOOLEAN, hasOnUnload \in BOOLEAN,
        unloadThrows \in BOOLEAN, loadThrows \in BOOLEAN :
       registerPlugin(id, deps, hasOnLoad, hasOnUnload, unloadThrows, loadThrows)

InitRegistry ==
  InitRegistryVars /\ InitBusVars /\ InitPathVars /\ InitWatcherVars
  /\ InitCompileVars /\ InitBuildVars
  /\ InitReloadVars
  /\ InitLoaderVars
  /\ InitDevVars
  /\ InitMetaVars
  /\ InitWebviewVars
  /\ InitDeployVars

SpecRegistry == InitRegistry /\ [][NextRegistry]_vars

----------------------------------------------------------------------------
(* Event bus: on / emit                                                     *)

\* A registration that skips a handler the list already holds.
on_Dedup(side, name, kind) ==
  /\ busOps.on < MaxOn
  /\ eventHandlers' =
       [eventHandlers EXCEPT ![side][name] =
          IF \E i \in DOMAIN @ : @[i] = kind THEN @ ELSE Append(@, kind)]
  /\ busOps' = [busOps EXCEPT !.on = @ + 1]
  /\ UNCHANGED lastEmit
  /\ UNCHANGED notBusVars

\* on(eventName, handler): push the handler at the end of the name's list.
\* The same code serves the server bus (coreAPI.on) and the client bus.
on(side, name, kind) ==
  /\ busOps.on < MaxOn
  /\ eventHandlers' =
       [eventHandlers EXCEPT ![side][name] = Append(@, kind)]
  /\ busOps' = [busOps EXCEPT !.on = @ + 1]
  /\ UNCHANGED lastEmit
  /\ UNCHANGED notBusVars

ServerInvoke_NoCatch(kind) == IF kind = "throws" THEN "propagated" ELSE "returned"

\* Server emit, one loop iteration: try { handler(...args) } catch { logError }.
ServerInvoke(kind) == IF kind = "throws" THEN "caught" ELSE "returned"

ClientInvoke_NoCatch(kind) == IF kind = "throws" THEN "propagated" ELSE "returned"

\* Client emitEvent, one loop iteration: the same try/catch around the call.
ClientInvoke(kind) == IF kind = "throws" THEN "caught" ELSE "returned"

\* The for-of loop of emit / emitEvent over the handler array, from position
\* i on. The array is the live one stored in the Map: a handler of kind
\* "adds" pushes onto it while the loop runs. `run` carries the array, the
\* positions invoked so far and whether an exception left the loop.
RECURSIVE EmitLoop(_, _, _)
EmitLoop(side, i, run) ==
  IF i > Len(run.list)
    THEN run
    ELSE LET kind == run.list[i]
             list2 == IF kind = "adds" THEN Append(run.list, "ok") ELSE run.list
             outcome == IF side = "server" THEN ServerInvoke(kind)
                                            ELSE ClientInvoke(kind)
             run2 == [list |-> list2, invoked |-> Append(run.invoked, i),
                      escaped |-> outcome = "propagated"]
         IN IF outcome = "propagated" THEN run2 ELSE EmitLoop(side, i + 1, run2)

\* emit(eventName, ...args) on the server, emitEvent on the client.
emit(side, name) ==
  LET before == eventHandlers[side][name]
      run == EmitLoop(side, 1, [list |-> before, invoked |-> << >>,
                                escaped |-> FALSE])
  IN /\ busOps.emit < MaxEmit
     /\ eventHandlers' = [eventHandlers EXCEPT ![side][name] = run.list]
     /\ lastEmit' = [side |-> side, name |-> name, before |-> before,
                     after |-> run.list, invoked |-> run.invoked,
                     escaped |-> run.escaped]
     /\ busOps' = [busOps EXCEPT !.emit = @ + 1]
     /\ UNCHANGED notBusVars

NextBus ==
  \/ \E side \in Sides, name \in EventNames, kind \in HandlerKinds :
       on(side, name, kind)
  \/ \E side \in Sides, name \in EventNames : emit(side, name)

InitBus ==
  InitRegistryVars /\ InitBusVars /\ InitPathVars /\ InitWatcherVars
  /\ InitCompileVars /\ InitBuildVars
  /\ InitReloadVars
  /\ InitLoaderVars
  /\ InitDevVars
  /\ InitMetaVars
  /\ InitWebviewVars
  /\ InitDeployVars

SpecBus == InitBus /\ [][NextBus]_vars

----------------------------------------------------------------------------
(* Path-to-owner resolution: the two copies of getResourceNameFromPath      *)

\* The characters of the token end in "src".
EndsWithSrc(tok) == tok \in {"src", "xsrc"}

\* filePath.replace(/\\/g, '/')
NormalizeSeparators(t) ==
  [i \in DOMAIN t |-> IF t[i] = Backslash THEN Slash ELSE t[i]]

\* The regular expression /src\/plugins\/([^\/]+)/ matches with "src"
\* ending at token i: the text "src/plugins/" followed by at least one
\* character other than "/".
PluginMatchAt(t, i) ==
  /\ i + 4 <= Len(t)
  /\ EndsWithSrc(t[i])
  /\ t[i + 1] = Slash
  /\ t[i + 2] = "plugins"
  /\ t[i + 3] = Slash
  /\ t[i + 4] # Slash

\* Capture group 1 of the leftmost match: everything from token `from` up to
\* the next "/" (a backslash is an ordinary character of the group).
CaptureEnd(t, from) ==
  LET stops == {j \in from..Len(t) : t[j] = Slash}
  IN IF stops = {} THEN Len(t)
     ELSE (CHOOSE j \in stops : \A k \in stops : j <= k) - 1

\* match[1] of filePath.match(/src\/plugins\/([^\/]+)/), or NoOwner.
PluginMatch(t) ==
  LET starts == {i \in DOMAIN t : PluginMatchAt(t, i)}
  IN IF starts = {} THEN NoOwner
     ELSE LET i == CHOOSE m \in starts : \A k \in starts : m <= k
          IN SubSeq(t, i + 4, CaptureEnd(t, i + 4))

\* filePath.includes('src/core/')
IncludesSrcCore(t) ==
  \E i \in DOMAIN t :
    /\ i + 3 <= Len(t)
    /\ EndsWithSrc(t[i])
    /\ t[i + 1] = Slash
    /\ t[i + 2] = "core"
    /\ t[i + 3] = Slash

\* The body shared by both copies, applied to the string they match on.
OwnerOfString(t) ==
  IF PluginMatch(t) # NoOwner THEN PluginMatch(t)
  ELSE IF IncludesSrcCore(t) THEN <<"core">>
  ELSE NoOwner

\* scripts/hot-reload.js getResourceNameFromPath: matches on filePath as given.
WatcherResourceName(t) == OwnerOfString(t)

\* src/core/server/hot-reload.ts getResourceNameFromPath: normalises the
\* separators first.
ServerResourceName(t) == OwnerOfString(NormalizeSeparators(t))

\* Apply both copies to the chosen path.
resolvePath ==
  /\ ~resolved.done
  /\ resolved' = [watcher |-> WatcherResourceName(filePath),
                  server |-> ServerResourceName(filePath), done |-> TRUE]
  /\ UNCHANGED filePath
  /\ UNCHANGED notPathVars

InitPath ==
  /\ InitRegistryVars /\ InitBusVars /\ InitWatcherVars /\ InitCompileVars
  /\ InitBuildVars
  /\ InitReloadVars
  /\ InitLoaderVars
  /\ InitDevVars
  /\ InitMetaVars
  /\ InitWebviewVars
  /\ InitDeployVars
  /\ \E k \in 1..MaxSegs : \E segs \in [1..k -> Names], sep \in Separators :
       filePath = Tokens(segs, sep)
  /\ resolved = Unresolved

NextPath == resolvePath

SpecPath == InitPath /\ [][NextPath]_vars

----------------------------------------------------------------------------
(* File watcher: the initial full build, the debounce timer, rebuild cycles *)

\* An add that forgets what the set held.
SetAdd_Replace(set, x) == <<x>>

\* Set.prototype.add on an insertion-ordered Set.
SetAdd(set, x) ==
  IF \E i \in DOMAIN set : set[i] = x THEN set ELSE Append(set, x)

\* buildPlugin of the build script: every error is caught inside it and
\* reported as an unsuccessful result.
BuildPluginResult(pluginName, failing) == pluginName \notin failing

\* The loop of buildPlugins over the plugin directories.
RECURSIVE BuildPluginsLoop(_, _, _, _)
BuildPluginsLoop(pluginDirs, i, failing, acc) ==
  IF i > Len(pluginDirs) THEN acc
  ELSE LET pluginName == pluginDirs[i]
           success == BuildPluginResult(pluginName, failing)
       IN  BuildPluginsLoop(pluginDirs, i + 1, failing,
             [attempted |-> Append(acc.attempted, pluginName),
              failed |-> IF success THEN acc.failed
                         ELSE Append(acc.failed, pluginName)])

\* startHotReload: build(false), whose result is ignored, then the watcher
\* is installed.  `reached` says whether build got as far as buildPlugins
\* (directories ensured and core built); `failing` are the plugins whose
\* build hits an error.
startHotReload(reached, failing) ==
  /\ wpc = "boot"
  /\ fullPass' =
       IF reached
       THEN LET r == BuildPluginsLoop(PluginDirs, 1, failing,
                       [attempted |-> << >>, failed |-> << >>])
            IN  [done |-> TRUE, coreOk |-> TRUE,
                 attempted |-> r.attempted, failed |-> r.failed]
       ELSE NoPass
  /\ wpc' = "idle"
  /\ UNCHANGED <<now, ioQueue, pendingReloads, reloadTimer, cycle,
                 reloadLog, burst, evCount, hostLink, ledger>>
  /\ UNCHANGED notWatcherVars

\* The timer callback is ready to run.
TimerDue == reloadTimer.armed /\ now >= reloadTimer.due

\* chokidar reports a change or an added file; the callback is queued on
\* the event loop.
fileSystemEvent(kind, path) ==
  /\ wpc \in {"idle", "building"}
  /\ evCount < MaxEvents
  /\ ioQueue' = Append(ioQueue, [kind |-> kind, path |-> path])
  /\ evCount' = evCount + 1
  /\ ledger' = IF WatcherResourceName(path) = NoOwner THEN ledger
               ELSE [ledger EXCEPT !.owed = @ \cup {WatcherResourceName(path)}]
  /\ UNCHANGED <<wpc, now, pendingReloads, reloadTimer, fullPass, cycle,
                 reloadLog, burst, hostLink>>
  /\ UNCHANGED notWatcherVars

\* The burst of an owner after one more accepted event: it continues when
\* the gap to the previous accepted event is under the quiet interval and
\* starts afresh otherwise.
BurstAfterEvent(b, t) ==
  IF b.n > 0 /\ t - b.last < QuietInterval
  THEN [b EXCEPT !.n = b.n + 1, !.last = t]
  ELSE [n |-> 1, last |-> t, builds |-> 0]

\* A timer that is left alone when one is already pending.
Reschedule_KeepPending(timer, t) ==
  IF timer.armed THEN timer ELSE [armed |-> TRUE, due |-> t + QuietInterval]

\* clearTimeout(reloadTimer) and setTimeout(..., 500).
Reschedule(timer, t) == [armed |-> TRUE, due |-> t + QuietInterval]

\* Body of handleFileChange for the event at the head of the queue.
HandleChange(path) ==
  LET resourceName == WatcherResourceName(path)
  IN  IF resourceName = NoOwner
      THEN /\ ledger' = [ledger EXCEPT !.lastAny = now]
           /\ UNCHANGED <<pendingReloads, reloadTimer, burst>>
      ELSE /\ pendingReloads' = SetAdd(pendingReloads, resourceName)
           /\ reloadTimer' = Reschedule(reloadTimer, now)
           /\ burst' = [burst EXCEPT
                          ![resourceName] = BurstAfterEvent(@, now)]
           /\ ledger' = [ledger EXCEPT
                           !.lastAny = now, !.lastAccepted = now,
                           !.accepted = @ \cup {resourceName}]

\* An event callback runs only while no JavaScript is running, and a timer
\* that is already due runs before queued I/O callbacks.
handleFileChange ==
  /\ wpc = "idle"
  /\ ioQueue # << >>
  /\ ~TimerDue
  /\ Head(ioQueue).kind = "change"
  /\ HandleChange(Head(ioQueue).path)
  /\ ioQueue' = Tail(ioQueue)
  /\ UNCHANGED <<wpc, now, fullPass, cycle, reloadLog, evCount, hostLink>>
  /\ UNCHANGED notWatcherVars

\* handleFileAdd delegates to handleFileChange.
handleFileAdd ==
  /\ wpc = "idle"
  /\ ioQueue # << >>
  /\ ~TimerDue
  /\ Head(ioQueue).kind = "add"
  /\ HandleChange(Head(ioQueue).path)
  /\ ioQueue' = Tail(ioQueue)
  /\ UNCHANGED <<wpc, now, fullPass, cycle, reloadLog, evCount, hostLink>>
  /\ UNCHANGED notWatcherVars

\* Time passes.  An idle event loop runs ready callbacks before it waits;
\* a synchronous build takes whatever time it takes.
Tick ==
  /\ wpc \in {"idle", "building"}
  /\ now + TickMs <= MaxTime
  /\ wpc = "idle" => (ioQueue = << >> /\ ~TimerDue)
  /\ now' = now + TickMs
  /\ UNCHANGED <<wpc, ioQueue, pendingReloads, reloadTimer, fullPass, cycle,
                 reloadLog, burst, evCount, hostLink, ledger>>
  /\ UNCHANGED notWatcherVars

\* The timer callback starts: resourcesToReload = Array.from(pendingReloads).
timerFire ==
  /\ wpc = "idle"
  /\ TimerDue
  /\ reloadTimer' = [reloadTimer EXCEPT !.armed = FALSE]
  /\ cycle' = [n |-> cycle.n + 1, snapshot |-> pendingReloads, idx |-> 1,
               built |-> << >>, state |-> "running", reloaded |-> FALSE,
               firedAt |-> now,
               sinceAny |-> now - ledger.lastAny,
               sinceAccepted |-> now - ledger.lastAccepted,
               accepted |-> ledger.accepted]
  /\ ledger' = [ledger EXCEPT !.accepted = {}]
  /\ wpc' = "building"
  /\ UNCHANGED <<now, ioQueue, pendingReloads, fullPass, reloadLog, burst,
                 evCount, hostLink>>
  /\ UNCHANGED notWatcherVars

\* One iteration of the loop over the live Set: buildCore() or
\* buildPlugin(resource).  Neither catches its errors and the loop has no
\* try, so a failing build leaves the callback with an uncaught exception,
\* which ends the process.
rebuildNext(ok) ==
  /\ wpc = "building"
  /\ cycle.idx <= Len(pendingReloads)
  /\ LET resource == pendingReloads[cycle.idx]
     IN  /\ burst' = [burst EXCEPT ![resource].builds = @ + 1]
         /\ cycle' = [cycle EXCEPT
                        !.built = Append(@, resource),
                        !.idx = IF ok THEN @ + 1 ELSE @,
                        !.state = IF ok THEN @ ELSE "aborted"]
  /\ ledger' = [ledger EXCEPT !.owed = @ \ {pendingReloads[cycle.idx]}]
  /\ wpc' = IF ok THEN "building" ELSE "crashed"
  /\ UNCHANGED <<now, ioQueue, pendingReloads, reloadTimer, fullPass,
                 reloadLog, evCount, hostLink>>
  /\ UNCHANGED notWatcherVars

\* triggerReload: it logs the resources and that the reload was triggered;
\* sending anything to the server is left as a TODO, so the link is as it
\* was.
TriggerReload(resources, link) == link

\* The loop is over: pendingReloads.clear(), triggerReload(resourcesToReload).
cycleEnd ==
  /\ wpc = "building"
  /\ cycle.idx > Len(pendingReloads)
  /\ pendingReloads' = << >>
  /\ reloadLog' = Append(reloadLog, cycle.snapshot)
  /\ cycle' = [cycle EXCEPT !.state = "completed", !.reloaded = TRUE]
  /\ hostLink' = TriggerReload(cycle.snapshot, hostLink)
  /\ wpc' = "idle"
  /\ UNCHANGED <<now, ioQueue, reloadTimer, fullPass, burst, evCount, ledger>>
  /\ UNCHANGED notWatcherVars

NextWatcher ==
  \/ \E reached \in BOOLEAN, failing \in SUBSET {"a", "b"} :
       startHotReload(reached, failing)
  \/ \E kind \in EventKinds, path \in WatchedPaths : fileSystemEvent(kind, path)
  \/ handleFileChange
  \/ handleFileAdd
  \/ Tick
  \/ timerFire
  \/ \E ok \in BOOLEAN : rebuildNext(ok)
  \/ cycleEnd

InitWatcher ==
  InitRegistryVars /\ InitBusVars /\ InitPathVars /\ InitWatcherVars
  /\ InitCompileVars /\ InitBuildVars
  /\ InitReloadVars
  /\ InitLoaderVars
  /\ InitDevVars
  /\ InitMetaVars
  /\ InitWebviewVars
  /\ InitDeployVars

SpecWatcher == InitWatcher /\ [][NextWatcher]_vars

----------------------------------------------------------------------------
(* TypeScript compile step: the two revisions of compileTypeScript         *)

\* entry.name.endsWith('.ts') && !entry.name.endsWith('.d.ts')
IsTsSource(entry) == entry.ext = ".ts"

\* walkSync: the TypeScript sources of the subtree, in directory order.
SourceFiles(entries) == SelectSeq(entries, IsTsSource)

\* Names of the files of a list.
FileNames(files) == {files[i].base : i \in DOMAIN files}

\* esbuild.buildSync over a list of entry points: the build fails as a
\* whole.  With an error in any entry point it throws and writes nothing;
\* otherwise it writes one output per entry point.
BuildSync(entryPoints) ==
  IF \E i \in DOMAIN entryPoints : entryPoints[i].bad
  THEN [threw |-> TRUE, written |-> {}]
  ELSE [threw |-> FALSE, written |-> FileNames(entryPoints)]

\* scripts/build.js: all files are handed to one buildSync call inside the
\* function's try block.
CompileBatch(t) ==
  LET files == SourceFiles(t.entries)
  IN  IF ~t.exists \/ files = << >>
      THEN [done |-> TRUE, attempted |-> << >>, written |-> {}]
      ELSE [done |-> TRUE, attempted |-> files,
            written |-> BuildSync(files).written]

\* The earlier build script: one buildSync call per file, in a loop that
\* sits inside the function's try block, so the first throw ends the loop.
RECURSIVE CompileLoop(_, _, _)
CompileLoop(files, i, acc) ==
  IF i > Len(files) THEN acc
  ELSE LET result == BuildSync(<<files[i]>>)
           next == [acc EXCEPT !.attempted = Append(@, files[i]),
                               !.written = @ \cup result.written]
       IN  IF result.threw THEN next ELSE CompileLoop(files, i + 1, next)

CompileEach(t) ==
  LET files == SourceFiles(t.entries)
  IN  IF ~t.exists \/ files = << >>
      THEN [done |-> TRUE, attempted |-> << >>, written |-> {}]
      ELSE CompileLoop(files, 1,
             [done |-> TRUE, attempted |-> << >>, written |-> {}])

compileTypeScript ==
  /\ ~compiled.batch.done
  /\ compiled' = [compiled EXCEPT !.batch = CompileBatch(tree)]
  /\ UNCHANGED tree
  /\ UNCHANGED notCompileVars

compileTypeScriptEach ==
  /\ ~compiled.each.done
  /\ compiled' = [compiled EXCEPT !.each = CompileEach(tree)]
  /\ UNCHANGED tree
  /\ UNCHANGED notCompileVars

\* Subtrees: up to MaxFiles files with distinct base names, any of which
\* may fail to compile.
Trees ==
  UNION { { [exists |-> e, entries |-> [i \in 1..k |->
               [base |-> bs[i], ext |-> xs[i], bad |-> bad[i]]]] :
            e \in BOOLEAN,
            bs \in {f \in [1..k -> BaseNames] :
                      \A i, j \in 1..k : i # j => f[i] # f[j]},
            xs \in [1..k -> Extensions],
            bad \in [1..k -> BOOLEAN] } :
          k \in 1..MaxFiles }

InitCompile ==
  /\ InitRegistryVars /\ InitBusVars /\ InitPathVars /\ InitWatcherVars
  /\ InitBuildVars
  /\ InitReloadVars
  /\ InitLoaderVars
  /\ InitDevVars
  /\ InitMetaVars
  /\ InitWebviewVars
  /\ InitDeployVars
  /\ tree \in Trees
  /\ compiled = [batch |-> NotCompiled, each |-> NotCompiled]

NextCompile ==
  \/ compileTypeScript
  \/ compileTypeScriptEach

SpecCompile == InitCompile /\ [][NextCompile]_vars

----------------------------------------------------------------------------
(* Build passes: scripts/build.js (both layouts) and the watcher's rebuild  *)

\* Output paths.
ResourcesDir == <<"resources">>
MainDir == <<"resources", "main">>
OutputCoreDir == <<"resources", "main", "core">>
OutputPluginsDir == <<"resources", "main", "plugins">>
EmbeddedPluginDir(p) == OutputCoreDir \o <<"plugins", p>>
StandalonePluginDir(p) == ResourcesDir \o <<p>>

\* A write that moves an existing file aside instead of overwriting it.
WriteFile_KeepBackup(out, path, content) ==
  [q \in DOMAIN out \cup {path} \cup
         (IF path \in DOMAIN out THEN {path \o <<"bak">>} ELSE {}) |->
     IF q = path THEN content
     ELSE IF q = path \o <<"bak">> THEN out[path]
     ELSE out[q]]

\* fs.writeFileSync / fs.copyFileSync: the file is created or overwritten.
WriteFile(out, path, content) ==
  [q \in DOMAIN out \cup {path} |-> IF q = path THEN content ELSE out[q]]

\* fs.ensureDirSync / mkdirSync recursive: the directory and its parents.
RECURSIVE EnsureDir(_, _)
EnsureDir(out, path) ==
  IF path = << >> THEN out
  ELSE LET up == EnsureDir(out, SubSeq(path, 1, Len(path) - 1))
       IN  IF path \in DOMAIN up THEN up ELSE WriteFile(up, path, Dir)

\* The subtree compileTypeScript is given for a directory holding index.ts.
SubTree(state) ==
  [exists |-> state # "none",
   entries |-> IF state = "none" THEN << >>
               ELSE <<[base |-> "index", ext |-> ".ts",
                       bad |-> state = "bad"]>>]

\* The platform and the modules left external that build.js passes to
\* esbuild for a subtree.
BundleOptions(outDir) ==
  LET sub == outDir[Len(outDir)]
  IN  [platform |-> IF sub = "client" THEN "browser" ELSE "node",
       external |-> IF sub = "client"
                    THEN <<"alt-client", "alt-shared", "natives">>
                    ELSE IF sub = "server"
                    THEN <<"alt-server", "alt-shared", "natives">>
                    ELSE <<"alt-shared">>]

\* The options of the watcher's own esbuild calls: no module is external.
WatcherBundleOptions(sub) ==
  [platform |-> IF sub = "client" THEN "browser"
                ELSE IF sub = "server" THEN "node" ELSE "neutral",
   external |-> << >>]

\* compileTypeScript(srcGlob, outDir) of build.js on the output tree: its
\* errors stay inside it.
CompileInto(out, outDir, state) ==
  LET r == CompileBatch(SubTree(state))
  IN  IF "index" \in r.written
      THEN WriteFile(EnsureDir(out, outDir), outDir \o <<"index.js">>,
                     Js(BundleOptions(outDir)))
      ELSE out

\* The deps entry read from a plugin's resource.toml, with 'core' pushed
\* when it is not there (build.js, both layouts).
DepsWithCore(toml) ==
  IF toml = NoFile \/ toml.deps = << >> THEN <<"core">>
  ELSE IF \E i \in DOMAIN toml.deps : toml.deps[i] = "core" THEN toml.deps
  ELSE Append(toml.deps, "core")

\* The dependencies the watcher's buildPlugin puts into metadata.json.
DepsAsDeclared(toml) ==
  IF toml = NoFile \/ toml.deps = << >> THEN <<"core">> ELSE toml.deps

\* buildCore: false without src/core; otherwise compiles, creates a default
\* src/core/resource.toml when there is none, and copies it.
BuildCore(src, out) ==
  IF ~src.core.dir THEN [ok |-> FALSE, source |-> src, output |-> out]
  ELSE LET dirs == EnsureDir(EnsureDir(EnsureDir(out,
                     OutputCoreDir \o <<"server">>),
                     OutputCoreDir \o <<"client">>),
                     OutputCoreDir \o <<"shared">>)
           comp == CompileInto(dirs, OutputCoreDir \o <<"server">>,
                     IF src.core.serverBad THEN "bad" ELSE "ok")
           toml == IF src.core.toml = NoFile THEN DefaultCoreToml
                   ELSE src.core.toml
       IN  [ok |-> TRUE,
            source |-> [src EXCEPT !.core.toml = toml],
            output |-> WriteFile(comp,
                         OutputCoreDir \o <<"resource.toml">>, toml)]

\* buildPlugin of the embedded layout: resources/main/core/plugins/<name>.
BuildPluginEmbedded(p, src, out) ==
  LET plugin == src.plugins[p]
      dir == EmbeddedPluginDir(p)
      dirs == EnsureDir(EnsureDir(out, dir \o <<"server">>),
                        dir \o <<"client">>)
      comp == IF plugin.client = "none" THEN dirs
              ELSE CompileInto(dirs, dir \o <<"client">>, plugin.client)
  IN  WriteFile(comp, dir \o <<"metadata.json">>,
        [kind |-> "metadata", id |-> p,
         dependencies |-> DepsWithCore(plugin.toml),
         supportsHotReload |-> "true",
         isStandaloneResource |-> FALSE])

\* buildPlugin of the standalone layout: resources/<name> with its own
\* resource.toml.
BuildPluginStandalone(p, src, out) ==
  LET plugin == src.plugins[p]
      dir == StandalonePluginDir(p)
      dirs == EnsureDir(EnsureDir(out, dir \o <<"server">>),
                        dir \o <<"client">>)
      comp == IF plugin.client = "none" THEN dirs
              ELSE CompileInto(dirs, dir \o <<"client">>, plugin.client)
      toml == WriteFile(comp, dir \o <<"resource.toml">>,
                [kind |-> "toml",
                 clientFiles |-> <<<<"client", "*">>, <<"shared", "*">>>>,
                 deps |-> DepsWithCore(plugin.toml)])
  IN  WriteFile(toml, dir \o <<"metadata.json">>,
        [kind |-> "metadata", id |-> p, dependencies |-> <<"core">>,
         supportsHotReload |-> "true",
         isStandaloneResource |-> TRUE])

\* The loop of buildPlugins over the plugin directories, on the output tree.
RECURSIVE BuildPluginsEmbedded(_, _, _, _)
BuildPluginsEmbedded(pluginDirs, i, src, out) ==
  IF i > Len(pluginDirs) THEN out
  ELSE BuildPluginsEmbedded(pluginDirs, i + 1, src,
         BuildPluginEmbedded(pluginDirs[i], src, out))

\* build of the embedded layout: ensureDirectories, buildCore, buildPlugins.
BuildEmbedded(src, out) ==
  LET dirs == EnsureDir(EnsureDir(EnsureDir(out, MainDir), OutputCoreDir),
                        OutputPluginsDir)
      core == BuildCore(src, dirs)
  IN  IF ~core.ok THEN core
      ELSE [ok |-> TRUE, source |-> core.source,
            output |-> BuildPluginsEmbedded(PluginDirs, 1, core.source,
                         core.output)]

\* build of the standalone layout: its ensureDirectories creates resources/
\* and then throws on config.mainDir, which that configuration does not
\* set; build catches the error and returns false.
BuildStandalone(src, out) ==
  [ok |-> FALSE, source |-> src, output |-> EnsureDir(out, ResourcesDir)]

\* What buildPlugin of the watcher finds under src/plugins/<p>: when <p> is
\* not a plugin directory, none of the paths it probes exists.
PluginSource(src, p) ==
  IF p \in DOMAIN src.plugins THEN src.plugins[p]
  ELSE [toml |-> NoFile, client |-> "none"]

\* buildPlugin of the watcher: a compile error leaves it as an exception,
\* before metadata.json is written; its metadata has no supportsHotReload
\* key.
RebuildPlugin(p, src, out) ==
  LET plugin == PluginSource(src, p)
      dir == EmbeddedPluginDir(p)
      dirs == EnsureDir(out, dir)
  IN  IF plugin.client = "bad"
      THEN [threw |-> TRUE, output |-> dirs]
      ELSE [threw |-> FALSE,
            output |-> WriteFile(
              IF plugin.client = "none" THEN dirs
              ELSE WriteFile(EnsureDir(dirs, dir \o <<"client">>),
                             dir \o <<"client", "index.js">>,
                             Js(WatcherBundleOptions("client"))),
              dir \o <<"metadata.json">>,
              [kind |-> "metadata", id |-> p,
               dependencies |-> DepsAsDeclared(plugin.toml),
               supportsHotReload |-> "absent",
               isStandaloneResource |-> FALSE])]

\* What a build run leaves in the run record: a second run of the same
\* script on the source the first one left is a repeat.
AfterRun(script, srcAfter, outAfter) ==
  [count |-> runs.count + 1,
   edits |-> runs.edits,
   last |-> [script |-> script, source |-> srcAfter, output |-> outAfter],
   repeat |-> IF runs.last.script = script /\ runs.last.source = source
              THEN [seen |-> TRUE, first |-> runs.last.output,
                    second |-> outAfter]
              ELSE runs.repeat]

\* A scoped build or an edit ends a sequence of consecutive full builds.
AfterOther(isEdit) ==
  [runs EXCEPT !.count = IF isEdit THEN @ ELSE @ + 1,
               !.edits = IF isEdit THEN @ + 1 ELSE @,
               !.last = NoRun]

buildEmbedded ==
  /\ runs.count < MaxRuns
  /\ LET r == BuildEmbedded(source, output)
     IN  /\ source' = r.source
         /\ output' = r.output
         /\ runs' = AfterRun("embedded", r.source, r.output)
  /\ UNCHANGED notBuildVars

buildStandalone ==
  /\ runs.count < MaxRuns
  /\ LET r == BuildStandalone(source, output)
     IN  /\ source' = r.source
         /\ output' = r.output
         /\ runs' = AfterRun("standalone", r.source, r.output)
  /\ UNCHANGED notBuildVars

\* buildPlugin of the standalone layout, called on its own (it is exported).
buildPluginStandalone(p) ==
  /\ runs.count < MaxRuns
  /\ output' = BuildPluginStandalone(p, source, output)
  /\ runs' = AfterOther(FALSE)
  /\ UNCHANGED source
  /\ UNCHANGED notBuildVars

\* The watcher's scoped rebuild of one plugin.
rebuildPlugin(p) ==
  /\ runs.count < MaxRuns
  /\ output' = RebuildPlugin(p, source, output).output
  /\ runs' = AfterOther(FALSE)
  /\ UNCHANGED source
  /\ UNCHANGED notBuildVars

\* Paths of files the developer saves while the watcher runs: a source
\* file of plugin a, a file placed directly in src/plugins, a file outside
\* every resource.
SavedPaths ==
  { Tokens(<<"src", "plugins", "a", "client", "index.ts">>, Slash),
    Tokens(<<"src", "plugins", "notes.md">>, Slash),
    Tokens(<<"src", "types", "index.d.ts">>, Slash) }

\* A burst of one change event, from handleFileChange to the end of the
\* timer callback: the path is resolved to an owner, and a plugin owner is
\* rebuilt by the watcher's buildPlugin.
rebuildChanged(path) ==
  /\ runs.count < MaxRuns
  /\ LET owner == WatcherResourceName(path)
     IN  output' = IF owner = NoOwner THEN output
                   ELSE RebuildPlugin(owner[1], source, output).output
  /\ runs' = AfterOther(FALSE)
  /\ UNCHANGED source
  /\ UNCHANGED notBuildVars

\* What an edit of plugin a can leave: a manifest that does not name
\* 'core', a removed manifest, a compile error in the client code.
EditedSources ==
  { [toml |-> [kind |-> "toml", deps |-> <<"x">>], client |-> "ok"],
    [toml |-> NoFile, client |-> "ok"],
    [toml |-> [kind |-> "toml", deps |-> <<"core">>], client |-> "bad"] }

\* The developer edits plugin a: its manifest or its client code.
editSource(plugin) ==
  /\ runs.edits < MaxEdits
  /\ plugin # source.plugins["a"]
  /\ source' = [source EXCEPT !.plugins["a"] = plugin]
  /\ runs' = AfterOther(TRUE)
  /\ UNCHANGED output
  /\ UNCHANGED notBuildVars

NextBuild ==
  \/ buildEmbedded
  \/ buildStandalone
  \/ \E p \in {"a", "b"} : buildPluginStandalone(p)
  \/ \E p \in {"a", "b"} : rebuildPlugin(p)
  \/ \E path \in SavedPaths : rebuildChanged(path)
  \/ \E plugin \in EditedSources : editSource(plugin)

InitBuild ==
  /\ InitRegistryVars /\ InitBusVars /\ InitPathVars /\ InitWatcherVars
  /\ InitCompileVars
  /\ InitReloadVars
  /\ InitLoaderVars
  /\ InitDevVars
  /\ InitMetaVars
  /\ InitWebviewVars
  /\ InitDeployVars
  /\ source \in Sources
  /\ output = << >>
  /\ runs = [count |-> 0, edits |-> 0, last |-> NoRun, repeat |-> NoRepeat]

SpecBuild == InitBuild /\ [][NextBuild]_vars

----------------------------------------------------------------------------
(* Server-side reload: src/core/server/hot-reload.ts                        *)

\* The check at the head of reloadPlugin: the id is in the map and its
\* timestamp is less than the window old.
ReloadSkipped(id, map, t) ==
  id \in DOMAIN map /\ t - map[id] < ReloadWindow

\* Map.delete.
MapDelete(m, k) == [x \in (DOMAIN m) \ {k} |-> m[x]]

\* The body of reloadPlugin after the check: the events it emits and the
\* map it leaves. hostThrows is whether a host call inside the try block
\* throws; the finally block deletes the entry on every path.
ReloadBody(id, map, t, hostThrows) ==
  LET marked == MapSet(map, id, t)
      started == <<"core:hotReload:start">>
      events == IF hostThrows
                THEN Append(started, "core:hotReload:failed")
                ELSE Append(started, "core:hotReload:complete")
  IN  [events |-> events, map |-> MapDelete(marked, id)]

reloadPlugin(id, hostThrows) ==
  /\ reloadCount < MaxReloads
  /\ LET skip == ReloadSkipped(id, reloadingResources, serverNow)
         r == ReloadBody(id, reloadingResources, serverNow, hostThrows)
     IN  /\ reloadingResources' = IF skip THEN reloadingResources ELSE r.map
         /\ lastReload' = [id |-> id, at |-> serverNow,
                           previous |-> reloadCalls[id], skipped |-> skip,
                           events |-> IF skip THEN << >> ELSE r.events]
  /\ reloadCalls' = [reloadCalls EXCEPT ![id] = serverNow]
  /\ reloadCount' = reloadCount + 1
  /\ UNCHANGED serverNow
  /\ UNCHANGED notReloadVars

\* Time passes in the server process.
serverTick ==
  /\ serverNow + ReloadTickMs <= MaxReloadTime
  /\ serverNow' = serverNow + ReloadTickMs
  /\ UNCHANGED <<reloadingResources, reloadCalls, lastReload, reloadCount>>
  /\ UNCHANGED notReloadVars

NextReload ==
  \/ \E id \in ReloadIds, hostThrows \in BOOLEAN : reloadPlugin(id, hostThrows)
  \/ serverTick

InitReload ==
  InitRegistryVars /\ InitBusVars /\ InitPathVars /\ InitWatcherVars
  /\ InitCompileVars /\ InitBuildVars
  /\ InitReloadVars
  /\ InitLoaderVars
  /\ InitDevVars
  /\ InitMetaVars
  /\ InitWebviewVars
  /\ InitDeployVars

SpecReload == InitReload /\ [][NextReload]_vars

----------------------------------------------------------------------------
(* Client plugin loader: src/core/client/plugin-loader.ts                   *)

\* A listener as the host keeps it: the function, and the plugin whose
\* handler subscribed it.
Listener(plugin, fn) == [plugin |-> plugin, fn |-> fn]

\* alt.onServer(eventName, listener): the host adds the listener to the
\* event's list; nothing in the loader ever calls alt.offServer.
OnServer(listeners, ev, plugin, fn) ==
  [listeners EXCEPT ![ev] = Append(@, Listener(plugin, fn))]

\* The server events each registered plugin subscribes to, with the
\* function it subscribes, in the order of the calls.
Subscriptions(plugin) ==
  IF plugin = "example-ts"
    THEN << <<"example:notification", "showNotification">>,
            <<"example:giveWeapons", "giveWeapons">> >>
  ELSE IF plugin = "example-html"
    THEN << <<"example:notification", "showNotification">>,
            <<"example:toggleUI", "toggleHtmlUI">> >>
  ELSE << >>

\* The alt.onServer calls of one init or reload handler, in order.
RECURSIVE Subscribe(_, _, _, _)
Subscribe(listeners, plugin, subs, i) ==
  IF i > Len(subs) THEN listeners
  ELSE Subscribe(OnServer(listeners, subs[i][1], plugin, subs[i][2]),
                 plugin, subs, i + 1)

\* alt.onServer('plugin:init') -> core.emit('plugin:<id>:init'): the
\* plugin's init handler subscribes to its server events; example-ts also
\* adds its keyup listener. An id without a handler changes nothing. The
\* server sends plugin:init once per plugin when the player connects.
pluginInit(plugin) ==
  /\ loaderOps < MaxLoaderOps
  /\ plugin \notin initialised
  /\ initialised' = initialised \cup {plugin}
  /\ serverListeners' =
       Subscribe(serverListeners, plugin, Subscriptions(plugin), 1)
  /\ keyListeners' = IF plugin = "example-ts"
                     THEN Append(keyListeners, "handleKeyUp")
                     ELSE keyListeners
  /\ loaderOps' = loaderOps + 1
  /\ UNCHANGED <<htmlUiVisible, lastDelivery>>
  /\ UNCHANGED notLoaderVars

\* alt.onServer('plugin:reload') -> core.emit('plugin:<id>:reload'): the
\* reload handler closes the plugin's UI when it is open and subscribes to
\* the server events again. (uiVisible of example-ts is never set, so its
\* closeUI branch is never taken.)
pluginReload(plugin) ==
  /\ loaderOps < MaxLoaderOps
  /\ htmlUiVisible' = IF plugin = "example-html" THEN FALSE ELSE htmlUiVisible
  /\ serverListeners' =
       Subscribe(serverListeners, plugin, Subscriptions(plugin), 1)
  /\ loaderOps' = loaderOps + 1
  /\ UNCHANGED <<keyListeners, initialised, lastDelivery>>
  /\ UNCHANGED notLoaderVars

\* toggleHtmlUI, once per listener of it in the list.
RECURSIVE ToggleEach(_, _, _)
ToggleEach(list, i, visible) ==
  IF i > Len(list) THEN visible
  ELSE ToggleEach(list, i + 1,
         IF list[i].fn = "toggleHtmlUI" THEN ~visible ELSE visible)

\* The server emits an event to this client: the host invokes every
\* listener of the event's list, in order.
serverEvent(ev) ==
  /\ lastDelivery' = [event |-> ev, invoked |-> serverListeners[ev],
                       ready |-> initialised]
  /\ htmlUiVisible' = ToggleEach(serverListeners[ev], 1, htmlUiVisible)
  /\ UNCHANGED <<serverListeners, keyListeners, initialised, loaderOps>>
  /\ UNCHANGED notLoaderVars

NextLoader ==
  \/ \E plugin \in LoaderPluginIds : pluginInit(plugin)
  \/ \E plugin \in LoaderPluginIds : pluginReload(plugin)
  \/ \E ev \in ServerEvents : serverEvent(ev)

InitLoader ==
  InitRegistryVars /\ InitBusVars /\ InitPathVars /\ InitWatcherVars
  /\ InitCompileVars /\ InitBuildVars
  /\ InitReloadVars
  /\ InitLoaderVars
  /\ InitDevVars
  /\ InitMetaVars
  /\ InitWebviewVars
  /\ InitDeployVars

SpecLoader == InitLoader /\ [][NextLoader]_vars

----------------------------------------------------------------------------
(* Development script without hot reloading: startRegularDev                *)

\* The exit code of the build script run directly: its entry point calls
\* build(production) and drops the result, and build catches every error,
\* so the process ends normally whatever build returned.
BuildExitCode(ok) == 0

\* startRegularDev up to the spawn of the build process.
spawnBuild ==
  /\ devPc = "start"
  /\ devPc' = "building"
  /\ buildProc' = [state |-> "running", code |-> 0, ok |-> FALSE]
  /\ UNCHANGED <<serverProc, devExit>>
  /\ UNCHANGED notDevVars

\* The build process runs build() of the given layout to its end and exits.
buildRuns(layout) ==
  /\ buildProc.state = "running"
  /\ LET r == IF layout = "embedded" THEN BuildEmbedded(source, output)
              ELSE BuildStandalone(source, output)
     IN  /\ source' = r.source
         /\ output' = r.output
         /\ buildProc' = [state |-> "exited", code |-> BuildExitCode(r.ok),
                          ok |-> r.ok]
  /\ UNCHANGED <<devPc, serverProc, devExit>>
  /\ UNCHANGED notDevBuildVars

\* The build process is killed or cannot run before build() returns.
buildDies ==
  /\ buildProc.state = "running"
  /\ buildProc' = [state |-> "exited", code |-> 1, ok |-> FALSE]
  /\ UNCHANGED <<devPc, serverProc, devExit>>
  /\ UNCHANGED notDevVars

\* buildProcess.on('exit'): a non-zero code ends the script with that code;
\* otherwise the host server is spawned.
onBuildExit ==
  /\ devPc = "building"
  /\ buildProc.state = "exited"
  /\ IF buildProc.code # 0
       THEN /\ devPc' = "exited"
            /\ devExit' = buildProc.code
            /\ UNCHANGED serverProc
       ELSE /\ devPc' = "serving"
            /\ serverProc' = [state |-> "running", code |-> 0, ok |-> TRUE]
            /\ UNCHANGED devExit
  /\ UNCHANGED buildProc
  /\ UNCHANGED notDevVars

\* serverProcess.on('exit'): the script exits with the server's code.
onServerExit(code) ==
  /\ devPc = "serving"
  /\ serverProc.state = "running"
  /\ serverProc' = [state |-> "exited", code |-> code, ok |-> code = 0]
  /\ devPc' = "exited"
  /\ devExit' = code
  /\ UNCHANGED buildProc
  /\ UNCHANGED notDevVars

\* SIGINT while serving: the server is killed and the script exits with 0.
onSigint ==
  /\ devPc = "serving"
  /\ serverProc.state = "running"
  /\ serverProc' = [state |-> "exited", code |-> 1, ok |-> FALSE]
  /\ devPc' = "exited"
  /\ devExit' = 0
  /\ UNCHANGED buildProc
  /\ UNCHANGED notDevVars

NextDev ==
  \/ spawnBuild
  \/ \E layout \in {"embedded", "standalone"} : buildRuns(layout)
  \/ buildDies
  \/ onBuildExit
  \/ \E code \in ExitCodes : onServerExit(code)
  \/ onSigint

InitDev ==
  /\ InitRegistryVars /\ InitBusVars /\ InitPathVars /\ InitWatcherVars
  /\ InitCompileVars
  /\ InitReloadVars
  /\ InitLoaderVars
  /\ InitDevVars
  /\ InitMetaVars
  /\ InitWebviewVars
  /\ InitDeployVars
  /\ source \in Sources
  /\ output = << >>
  /\ runs = [count |-> 0, edits |-> 0, last |-> NoRun, repeat |-> NoRepeat]

SpecDev == InitDev /\ [][NextDev]_vars

----------------------------------------------------------------------------
(* Metadata propagation: the three writers of metadata.json                 *)

\* tomlContent.match(/<field>\s*=\s*"([^"]+)"/i) and the assignment that
\* follows it: the declared value, or the default when the file is missing
\* or does not declare the field.
Extracted(toml, field, default) ==
  IF toml = NoFile \/ toml[field] = Undeclared THEN default ELSE toml[field]

\* The default fields every writer starts from.
DefaultMetadata(id) ==
  [written |-> TRUE, by |-> "none", id |-> id, name |-> id,
   version |-> "1.0.0", author |-> Undeclared, description |-> Undeclared,
   dependencies |-> <<"core">>, supportsHotReload |-> Undeclared,
   isStandaloneResource |-> Undeclared]

\* buildPlugin of build.js, embedded layout: all five fields are read, and
\* 'core' is pushed onto the declared deps when it is missing.
MetadataEmbedded(id, toml) ==
  [DefaultMetadata(id) EXCEPT
     !.by = "embedded",
     !.name = Extracted(toml, "name", @),
     !.version = Extracted(toml, "version", @),
     !.author = Extracted(toml, "author", @),
     !.description = Extracted(toml, "description", @),
     !.dependencies = DepsWithCore(toml),
     !.supportsHotReload = "true"]

\* buildPlugin of build.js, standalone layout: the manifest's values go into
\* the generated resource.toml; metadata.json is written from the defaults.
MetadataStandalone(id, toml) ==
  [DefaultMetadata(id) EXCEPT
     !.by = "standalone",
     !.supportsHotReload = "true",
     !.isStandaloneResource = "true"]

\* buildPlugin of the watcher: name, version and deps are read; author and
\* description are not.
MetadataWatcher(id, toml) ==
  [DefaultMetadata(id) EXCEPT
     !.by = "watcher",
     !.name = Extracted(toml, "name", @),
     !.version = Extracted(toml, "version", @),
     !.dependencies = DepsAsDeclared(toml)]

writeMetadataEmbedded ==
  /\ metaOut' = MetadataEmbedded(MetaPluginId, srcManifest)
  /\ UNCHANGED srcManifest
  /\ UNCHANGED notMetaVars

writeMetadataStandalone ==
  /\ metaOut' = MetadataStandalone(MetaPluginId, srcManifest)
  /\ UNCHANGED srcManifest
  /\ UNCHANGED notMetaVars

writeMetadataWatcher ==
  /\ metaOut' = MetadataWatcher(MetaPluginId, srcManifest)
  /\ UNCHANGED srcManifest
  /\ UNCHANGED notMetaVars

NextMeta ==
  \/ writeMetadataEmbedded
  \/ writeMetadataStandalone
  \/ writeMetadataWatcher

InitMeta ==
  /\ InitRegistryVars /\ InitBusVars /\ InitPathVars /\ InitWatcherVars
  /\ InitCompileVars /\ InitBuildVars
  /\ InitReloadVars
  /\ InitLoaderVars
  /\ InitDevVars
  /\ InitWebviewVars
  /\ InitDeployVars
  /\ srcManifest \in Manifests
  /\ metaOut = NoMetadata

SpecMeta == InitMeta /\ [][NextMeta]_vars

----------------------------------------------------------------------------
(* Managed UI webviews: createUIWebView, closeUIWebView, closeAllWebViews    *)

\* The body of closeUIWebView on the manager's state: an active webview of
\* the plugin is destroyed and removed, and the cursor and the controls
\* are restored when no webview is left.
CloseUI(pluginId, st) ==
  IF pluginId \notin DOMAIN st.active THEN st
  ELSE LET rest == MapDelete(st.active, pluginId)
       IN  [active |-> rest,
            cursor |-> IF DOMAIN rest = {} THEN FALSE ELSE st.cursor,
            controls |-> IF DOMAIN rest = {} THEN TRUE ELSE st.controls,
            closed |-> st.closed \cup {pluginId}]

\* The manager's state as a record.
WebviewState ==
  [active |-> activeWebviews, cursor |-> cursorShown,
   controls |-> controlsEnabled, closed |-> lastClosed]

\* createUIWebView(pluginId, htmlPath, {handleCursor, disableControls}):
\* closes the plugin's existing webview, creates the new one (created is
\* whether createWebView returned a webview), shows the cursor and
\* disables the controls as the options ask, focuses it (focusThrows is
\* whether webview.focus() throws), schedules the delayed showCursor(true)
\* and stores the webview.
createUIWebView(pluginId, handleCursor, disableControls, created, focusThrows) ==
  /\ webviewOps < MaxWebviewOps
  /\ LET st == CloseUI(pluginId, WebviewState)
     IN  IF ~created
           THEN /\ activeWebviews' = st.active
                /\ cursorShown' = st.cursor
                /\ controlsEnabled' = st.controls
                /\ lastClosed' = st.closed
                /\ UNCHANGED cursorTimers
           ELSE /\ activeWebviews' =
                     MapSet(st.active, pluginId,
                            [handleCursor |-> handleCursor,
                             disableControls |-> disableControls])
                /\ cursorShown' = (handleCursor \/ st.cursor)
                /\ controlsEnabled' = (~disableControls /\ st.controls)
                /\ lastClosed' = st.closed \ {pluginId}
                /\ cursorTimers' =
                     IF handleCursor /\ ~focusThrows
                     THEN Append(cursorTimers, pluginId)
                     ELSE cursorTimers
  /\ webviewOps' = webviewOps + 1
  /\ UNCHANGED notWebviewVars

\* closeUIWebView(pluginId), called by a plugin or by one of the webview's
\* close events.
closeUIWebView(pluginId) ==
  /\ LET st == CloseUI(pluginId, WebviewState)
     IN  /\ activeWebviews' = st.active
         /\ cursorShown' = st.cursor
         /\ controlsEnabled' = st.controls
         /\ lastClosed' = st.closed
  /\ UNCHANGED <<cursorTimers, webviewOps>>
  /\ UNCHANGED notWebviewVars

\* closeAllWebViews(): every webview is destroyed, the map cleared, the
\* cursor hidden and the controls enabled.
closeAllWebViews ==
  /\ activeWebviews' = EmptyMap
  /\ cursorShown' = FALSE
  /\ controlsEnabled' = TRUE
  /\ lastClosed' = lastClosed \cup DOMAIN activeWebviews
  /\ UNCHANGED <<cursorTimers, webviewOps>>
  /\ UNCHANGED notWebviewVars

\* The callback alt.setTimeout(() => alt.showCursor(true), 50) runs. The
\* timers are all of 50 ms, so they fire in the order they were set.
cursorTimerFires ==
  /\ cursorTimers # << >>
  /\ cursorShown' = TRUE
  /\ cursorTimers' = Tail(cursorTimers)
  /\ UNCHANGED <<activeWebviews, controlsEnabled, lastClosed, webviewOps>>
  /\ UNCHANGED notWebviewVars

NextWebview ==
  \/ \E pluginId \in WebviewIds, handleCursor \in BOOLEAN,
        disableControls \in BOOLEAN, created \in BOOLEAN,
        focusThrows \in BOOLEAN :
       createUIWebView(pluginId, handleCursor, disableControls, created,
                       focusThrows)
  \/ \E pluginId \in WebviewIds : closeUIWebView(pluginId)
  \/ closeAllWebViews
  \/ cursorTimerFires

InitWebview ==
  /\ InitRegistryVars /\ InitBusVars /\ InitPathVars /\ InitWatcherVars
  /\ InitCompileVars /\ InitBuildVars
  /\ InitReloadVars
  /\ InitLoaderVars
  /\ InitDevVars
  /\ InitMetaVars
  /\ InitWebviewVars
  /\ InitDeployVars

SpecWebview == InitWebview /\ [][NextWebview]_vars

----------------------------------------------------------------------------
(* Deploy script: scripts/dev.js                                            *)

\* A validation that takes every directory of plugins/.
ValidatePlugins_AnyDirectory(entries) ==
  SelectSeq(DeployNames, LAMBDA p : entries[p] \in {"dir", "plugin"})

\* validatePlugins(): the directories of plugins/ that hold a resource.toml,
\* in directory order.
ValidatePlugins(entries) ==
  SelectSeq(DeployNames, LAMBDA p : entries[p] = "plugin")

\* The smallest and the largest element of a non-empty set of integers.
MinOf(set) == CHOOSE i \in set : \A j \in set : i <= j
MaxOf(set) == CHOOSE i \in set : \A j \in set : j <= i

\* The scan of updateServerToml over the lines: the closing bracket is the
\* first line "]" after the first "resources = [" line, where the loop
\* stops; the comment index is the last marker line between them. -1 where
\* the loop finds none.
ScanServerToml(lines) ==
  LET starts == {i \in DOMAIN lines : lines[i].kind = "start"}
      first == IF starts = {} THEN 0 - 1 ELSE MinOf(starts)
      closes == {i \in DOMAIN lines :
                   first # 0 - 1 /\ i > first /\ lines[i].kind = "close"}
      end == IF closes = {} THEN 0 - 1 ELSE MinOf(closes)
      last == IF end = 0 - 1 THEN Len(lines) ELSE end - 1
      markers == {i \in DOMAIN lines :
                    /\ first # 0 - 1 /\ i > first /\ i <= last
                    /\ lines[i].kind = "marker"}
  IN  [resourcesStartIndex |-> first, resourcesEndIndex |-> end,
       commentLineIndex |-> IF markers = {} THEN 0 - 1 ELSE MaxOf(markers)]

\* The entry lines written for the plugins: a comma after all but the last.
PluginEntries(list) ==
  [i \in DOMAIN list |-> PluginLine(list[i], i < Len(list))]

\* updateServerToml(list) on the lines of server.toml: the file is left
\* as it is when the section or the marker is not found.
UpdateServerToml(lines, list) ==
  LET scan == ScanServerToml(lines)
  IN  IF \/ scan.resourcesStartIndex = 0 - 1
         \/ scan.resourcesEndIndex = 0 - 1
         \/ scan.commentLineIndex = 0 - 1
        THEN lines
        ELSE SubSeq(lines, 1, scan.commentLineIndex)
             \o PluginEntries(list)
             \o SubSeq(lines, scan.resourcesEndIndex, Len(lines))

\* Step 1 of main: validatePlugins.
validatePlugins ==
  /\ deployPc = "validate"
  /\ deployed' = ValidatePlugins(pluginsTree)
  /\ deployPc' = "clean"
  /\ UNCHANGED <<pluginsTree, mainTree, serverToml, tomlBefore>>
  /\ UNCHANGED notDeployVars

\* Steps 2 and 3 of main: resources/main is deleted and created again.
cleanMainDir ==
  /\ deployPc = "clean"
  /\ mainTree' = {}
  /\ deployPc' = "copy"
  /\ UNCHANGED <<pluginsTree, serverToml, tomlBefore, deployed>>
  /\ UNCHANGED notDeployVars

\* Step 4 of main, the copy loop: every valid plugin directory is copied to
\* resources/main/<plugin>.
copyPlugins ==
  /\ deployPc = "copy"
  /\ mainTree' = mainTree \cup {deployed[i] : i \in DOMAIN deployed}
  /\ deployPc' = "update"
  /\ UNCHANGED <<pluginsTree, serverToml, tomlBefore, deployed>>
  /\ UNCHANGED notDeployVars

\* Step 4 of main, the end: server.toml is rewritten with the deployed
\* plugins (with none when there is no valid plugin).
updateServerToml ==
  /\ deployPc = "update"
  /\ serverToml' = UpdateServerToml(serverToml, deployed)
  /\ deployPc' = "done"
  /\ UNCHANGED <<pluginsTree, mainTree, tomlBefore, deployed>>
  /\ UNCHANGED notDeployVars

NextDeploy ==
  \/ validatePlugins
  \/ cleanMainDir
  \/ copyPlugins
  \/ updateServerToml

InitDeploy ==
  /\ InitRegistryVars /\ InitBusVars /\ InitPathVars /\ InitWatcherVars
  /\ InitCompileVars /\ InitBuildVars
  /\ InitReloadVars
  /\ InitLoaderVars
  /\ InitDevVars
  /\ InitMetaVars
  /\ InitWebviewVars
  /\ pluginsTree \in [{DeployNames[i] : i \in DOMAIN DeployNames} -> EntryKinds]
  /\ mainTree \in StaleMainTrees
  /\ serverToml \in ServerTomls
  /\ tomlBefore = serverToml
  /\ deployed = << >>
  /\ deployPc = "validate"

SpecDeploy == InitDeploy /\ [][NextDeploy]_vars

----------------------------------------------------------------------------
(* Registry claims                                                          *)

\* Number of entries of a hook log that are invocations of hook h of
\* registration reg.
HookCount(log, h, reg) ==
  Cardinality({i \in DOMAIN log : log[i].hook = h /\ log[i].reg = reg})

LoadCount(log) == Cardinality({i \in DOMAIN log : log[i].hook = "onLoad"})

\* Indices of the registerPlugin calls made with id.
CallsOf(id) == {i \in DOMAIN callLog : callLog[i].id = id}

\* C1: a registerPlugin call naming a dependency that is not a key of the
\* registry leaves the registry exactly as it was and invokes no onLoad.
C1_RefusedLeavesRegistry ==
  [][ ( /\ Len(callLog') = Len(callLog) + 1
        /\ \E d \in lastCall'.deps : d \notin DOMAIN plugins )
      => ( plugins' = plugins /\ LoadCount(hookLog') = LoadCount(hookLog) )
    ]_vars

\* A call with a missing dependency was made for an id that is registered,
\* carrying a lifecycle with an onLoad hook.
C1_Witness ==
  /\ callLog # << >>
  /\ callLog[Len(callLog)].hasOnLoad
  /\ \E d \in lastCall.deps : d \notin DOMAIN plugins
  /\ lastCall.id \in DOMAIN plugins

\* C2: when registerPlugin has been called exactly twice with an id and both
\* calls passed the dependency check, the first registration's onUnload has
\* been invoked exactly once, and before the second registration's onLoad;
\* before the second call it has not been invoked at all.
C2_UnloadOnceBeforeLoad ==
  \A id \in PluginIds :
    LET cs == CallsOf(id) IN
      /\ ( Cardinality(cs) = 1 /\ (\A i \in cs : callLog[i].accepted) )
           => \A i \in cs : HookCount(hookLog, "onUnload", i) = 0
      /\ ( Cardinality(cs) = 2 /\ (\A i \in cs : callLog[i].accepted) )
           => \A i, j \in cs :
                (i < j /\ callLog[i].hasOnUnload) =>
                  /\ HookCount(hookLog, "onUnload", i) = 1
                  /\ \A u, l \in DOMAIN hookLog :
                       ( /\ hookLog[u] = [hook |-> "onUnload", reg |-> i]
                         /\ hookLog[l] = [hook |-> "onLoad", reg |-> j] )
                       => u < l

\* Some id has been registered twice, both accepted, the first with an
\* onUnload hook and the second with an onLoad hook.
C2_Witness ==
  \E id \in PluginIds :
    \E i, j \in CallsOf(id) :
      /\ Cardinality(CallsOf(id)) = 2
      /\ i < j
      /\ callLog[i].accepted /\ callLog[j].accepted
      /\ callLog[i].hasOnUnload /\ callLog[j].hasOnLoad

\* C3: every dependency id of every stored record is a key of the registry.
C3_DependenciesPresent ==
  \A id \in DOMAIN plugins : \A d \in plugins[id].deps : d \in DOMAIN plugins

\* A record with a dependency on another plugin is stored.
C3_Witness ==
  \E id \in DOMAIN plugins : \E d \in plugins[id].deps : d # id

\* C4: once initPluginManager has run, registerPlugin with dependencies
\* ['core'] registers the plugin: the id is loaded and its onLoad hook ran.
C4_CoreDependencyRegisters ==
  ( /\ coreExposed
    /\ callLog # << >>
    /\ lastCall.deps = {"core"} )
  => ( /\ isPluginLoaded(lastCall.id)
       /\ (callLog[Len(callLog)].hasOnLoad
             => HookCount(hookLog, "onLoad", Len(callLog)) = 1) )

\* C15: no record stored in the registry has had its onUnload hook
\* invoked; in particular a refused registerPlugin call for a registered id
\* does not invoke the stored record's onUnload.
C15_StoredRecordNeverUnloaded ==
  \A id \in DOMAIN plugins :
    HookCount(hookLog, "onUnload", plugins[id].reg) = 0

\* C20: an exception thrown by the replaced record's onUnload or by the new
\* record's onLoad does not leave registerPlugin: no call lets one escape;
\* after a replacing call whose onUnload threw, the new record is stored
\* and its onLoad, if it has one, was invoked; after a call whose onLoad
\* threw, the new record is stored.
C20_HookExceptionsSwallowed ==
  callLog # << >> =>
    LET reg == Len(callLog) IN
      /\ ~lastCall.escaped
      /\ (lastCall.unloadThrew /\ lastCall.deps \subseteq DOMAIN plugins) =>
           /\ lastCall.id \in DOMAIN plugins
           /\ plugins[lastCall.id].reg = reg
           /\ callLog[reg].hasOnLoad => HookCount(hookLog, "onLoad", reg) = 1
      /\ lastCall.loadThrew =>
           /\ lastCall.id \in DOMAIN plugins
           /\ plugins[lastCall.id].reg = reg

\* A replacing call in which both the old record's onUnload and the new
\* record's onLoad threw.
C20_Witness ==
  /\ callLog # << >>
  /\ lastCall.accepted
  /\ lastCall.unloadThrew
  /\ lastCall.loadThrew

----------------------------------------------------------------------------
(* Event bus claims                                                         *)

\* C5: in one emit(E), a throwing handler does not stop the handlers
\* registered after it: every handler that was in E's list when emit was
\* called is invoked in that emission, and emit does not throw. Both buses.
C5_ThrowDoesNotStopLater ==
  /\ ~lastEmit.escaped
  /\ \A i, j \in DOMAIN lastEmit.before :
       (lastEmit.before[i] = "throws" /\ i < j)
         => \E k \in DOMAIN lastEmit.invoked : lastEmit.invoked[k] = j

\* An emission has run over a list in which a throwing handler is followed
\* by a later-registered one.
C5_Witness ==
  /\ lastEmit.side \in Sides
  /\ \E i, j \in DOMAIN lastEmit.before :
       lastEmit.before[i] = "throws" /\ i < j

\* C16: an emission invokes exactly the handlers that were in the name's
\* list when emit was called, each once and in order: a handler added by
\* on() from inside a running handler is not invoked in that emission.
C16_EmitUsesHandlersAtCallTime ==
  lastEmit.side \in Sides =>
    lastEmit.invoked = [i \in 1..Len(lastEmit.before) |-> i]

\* list is an initial part of longer.
IsPrefix(list, longer) ==
  Len(list) <= Len(longer) /\ SubSeq(longer, 1, Len(list)) = list

\* C24: emit invokes the handlers of a name in the order on() registered
\* them and once per registration: every entry of the name's list is
\* invoked exactly once by an emission, in list order; each on() call adds
\* one entry at the end of one list, also for a handler the list already
\* holds; and no step removes or reorders an entry of any list.
C24_AppendOnlyInvokedInOrder ==
  /\ [](lastEmit.side \in Sides =>
          /\ lastEmit.invoked = [i \in 1..Len(lastEmit.after) |-> i]
          /\ IsPrefix(lastEmit.before, lastEmit.after))
  /\ [][/\ \A side \in Sides, name \in EventNames :
             IsPrefix(eventHandlers[side][name], eventHandlers'[side][name])
        /\ busOps'.on = busOps.on + 1 =>
             \E side \in Sides, name \in EventNames, kind \in HandlerKinds :
               eventHandlers' =
                 [eventHandlers EXCEPT ![side][name] = Append(@, kind)]]_vars

\* An emission has run over a list that holds the same handler twice, and
\* has invoked both registrations.
C24_Witness ==
  /\ lastEmit.side \in Sides
  /\ \E i, j \in DOMAIN lastEmit.before :
       /\ i < j
       /\ lastEmit.before[i] = lastEmit.before[j]
       /\ \E k, l \in DOMAIN lastEmit.invoked :
            k < l /\ lastEmit.invoked[k] = i /\ lastEmit.invoked[l] = j

----------------------------------------------------------------------------
(* Path-to-owner claims                                                     *)

\* A project-relative path whose place is plain: it starts at the source
\* root "src", no later name ends in "src", and it is not a name directly
\* inside src/plugins.
PlainPath(segs) ==
  /\ segs[1] = "src"
  /\ \A i \in 2..Len(segs) : ~EndsWithSrc(segs[i])
  /\ ~(Len(segs) = 3 /\ segs[2] = "plugins")

\* The owner such a path belongs to by its directory: src/plugins/<name>/...
\* belongs to <name>, src/core/... to core, every other path to nobody.
OwnerByDirectory(segs) ==
  IF Len(segs) >= 4 /\ segs[2] = "plugins" THEN <<segs[3]>>
  ELSE IF Len(segs) >= 3 /\ segs[2] = "core" THEN <<"core">>
  ELSE NoOwner

\* C7: both copies of the path-to-owner function return the plugin name for
\* a path under src/plugins/<name>/..., 'core' for a path under src/core/...,
\* and no owner for a path outside both, and they do so whether the path is
\* written with "/" or with "\" separators.
C7_OwnerOfPath ==
  (resolved.done /\ PlainPath(Segments(filePath))) =>
    /\ resolved.watcher = OwnerByDirectory(Segments(filePath))
    /\ resolved.server = OwnerByDirectory(Segments(filePath))

----------------------------------------------------------------------------
(* File watcher claims                                                      *)

Range(seq) == {seq[i] : i \in DOMAIN seq}

\* The watcher has nothing left to run: no callback queued, no timer armed,
\* no build in progress.
WatcherQuiet ==
  wpc \in {"idle", "crashed"} /\ ~reloadTimer.armed /\ ioQueue = << >>

\* C6: a burst of N >= 1 accepted events of one owner, each less than the
\* quiet interval after the previous one, gets exactly one rebuild of that
\* owner: never more than one, and one once the watcher has gone quiet.
C6_OneRebuildPerBurst ==
  \A o \in KnownOwners :
    /\ burst[o].builds <= 1
    /\ (burst[o].n >= 1 /\ WatcherQuiet) => burst[o].builds = 1

\* A step that adds one owner id, on an accepted event, while no cycle runs.
AddedOne ==
  /\ wpc = "idle"
  /\ ioQueue # << >>
  /\ LET o == WatcherResourceName(Head(ioQueue).path)
     IN  /\ o # NoOwner
         /\ o \notin Range(pendingReloads)
         /\ pendingReloads' = Append(pendingReloads, o)

\* A step in which the running cycle empties the whole set.
ClearedAll ==
  /\ wpc = "building"
  /\ cycle.idx > Len(cycle.snapshot)
  /\ pendingReloads' = << >>
  /\ cycle'.state = "completed"

\* C8: the pending-reload set changes only by an accepted event adding its
\* owner id or by the running cycle emptying it whole; while a cycle runs
\* the set stays equal to the cycle's snapshot (nothing is added between
\* snapshot and clear, nothing is removed on its own); and the set is empty
\* in the step that finishes a cycle.
C8_PendingSetChanges ==
  [][ /\ pendingReloads' # pendingReloads => (AddedOne \/ ClearedAll)
      /\ wpc = "building" => pendingReloads = cycle.snapshot
      /\ (cycle.state # "completed" /\ cycle'.state = "completed")
           => pendingReloads' = << >>
    ]_vars

\* A cycle over two owners has finished and emptied the set while an
\* accepted event, delivered during the builds, is still waiting.
C8_Witness ==
  /\ wpc = "idle"
  /\ cycle.state = "completed"
  /\ Len(cycle.snapshot) = 2
  /\ pendingReloads = << >>
  /\ ioQueue # << >>
  /\ WatcherResourceName(Head(ioQueue).path) # NoOwner
  /\ TimerDue = FALSE /\ reloadTimer.due <= now

\* C9: in a build pass over several owners a failure of one owner does not
\* keep the others from being built and the pass runs to its end: the full
\* build attempts every plugin directory, and a rebuild cycle that has
\* stopped running has built every owner of its snapshot, has triggered the
\* reload, and has not left the watcher dead with owners still pending.
C9_PassRunsToEnd ==
  /\ fullPass.done => Range(fullPass.attempted) = Range(PluginDirs)
  /\ cycle.state \in {"completed", "aborted"} =>
       /\ Range(cycle.snapshot) \subseteq Range(cycle.built)
       /\ cycle.reloaded
  /\ wpc = "crashed" => pendingReloads = << >>

\* C12: every rebuild cycle that has triggered its reload has sent the host
\* exactly one reload request listing the rebuilt owner ids, and has ended
\* only with the host's acknowledgement of that request received.
C12_ReloadRequestAcknowledged ==
  /\ Len(hostLink.requests) = Len(reloadLog)
  /\ \A i \in DOMAIN hostLink.requests :
       /\ hostLink.requests[i].type = "reload"
       /\ hostLink.requests[i].resources = reloadLog[i]
  /\ Len(hostLink.acks) = Len(hostLink.requests)

\* C17, as stated: every handled filesystem event, with or without an
\* owner, reschedules the timer, so no cycle fires less than the quiet
\* interval after the most recent handled event.
C17_NoFireSoonAfterAnyEvent ==
  cycle.n >= 1 => cycle.sinceAny >= QuietInterval

\* C17, amended: every handled event whose path resolves to an owner
\* cancels and reschedules the timer to the quiet interval from then, and
\* no cycle fires less than the quiet interval after the most recent such
\* event.
C17_NoFireSoonAfterAcceptedEvent ==
  /\ cycle.n >= 1 => cycle.sinceAccepted >= QuietInterval
  /\ reloadTimer.armed =>
       reloadTimer.due = ledger.lastAccepted + QuietInterval

\* A cycle has fired after the timer had been rescheduled at least once,
\* less than the quiet interval after an event without owner was handled.
C17_Witness ==
  /\ cycle.n >= 1
  /\ cycle.firedAt > QuietInterval
  /\ cycle.sinceAny < QuietInterval
  /\ cycle.sinceAccepted >= QuietInterval

\* C18: no accepted change is lost and no rebuild is interrupted: a cycle
\* that completes has built exactly the owners of its snapshot, in order,
\* whatever events were delivered meanwhile; and once the watcher has gone
\* quiet, every delivered change of a known owner has been followed by a
\* rebuild of that owner that started after it.
C18_NoAcceptedChangeLost ==
  /\ cycle.state = "completed" => cycle.built = cycle.snapshot
  /\ WatcherQuiet => ledger.owed = {}

\* C19: a cycle that has stopped running has rebuilt exactly the owners of
\* the events accepted since the previous cycle, each once, and the reload
\* trigger has been invoked once for it, after the builds, with exactly
\* those owners.
C19_CycleRebuildsAcceptedOwners ==
  /\ cycle.n >= 1 => Range(cycle.snapshot) = cycle.accepted
  /\ cycle.state \in {"completed", "aborted"} =>
       /\ Range(cycle.built) = cycle.accepted
       /\ Len(cycle.built) = Cardinality(cycle.accepted)
       /\ Len(reloadLog) = cycle.n
       /\ Range(reloadLog[cycle.n]) = cycle.accepted

----------------------------------------------------------------------------
(* Compile step claims                                                      *)

\* The TypeScript sources of the subtree that compile without error.
GoodSources ==
  IF tree.exists
  THEN {tree.entries[i].base : i \in {j \in DOMAIN tree.entries :
          IsTsSource(tree.entries[j]) /\ ~tree.entries[j].bad}}
  ELSE {}

\* C10: once compileTypeScript has run over a subtree, every .ts file of
\* the subtree that compiles has had its output written, whatever other
\* file of the subtree failed; in both revisions of the function.
C10_SiblingsStillCompiled ==
  /\ compiled.batch.done => GoodSources \subseteq compiled.batch.written
  /\ compiled.each.done => GoodSources \subseteq compiled.each.written

----------------------------------------------------------------------------
(* Build claims                                                             *)

\* C11: when build has run twice in a row with no source change in between,
\* the output tree after the second run is the output tree after the first.
C11_BuildIdempotent ==
  runs.repeat.seen => runs.repeat.first = runs.repeat.second

\* The embedded build has just run a second time on an unchanged source,
\* after an earlier edit, and the tree holds plugin a's metadata.
C11_Witness ==
  /\ runs.repeat.seen
  /\ runs.last.script = "embedded"
  /\ runs.edits = 1
  /\ runs.repeat.second = output
  /\ (EmbeddedPluginDir("a") \o <<"metadata.json">>) \in DOMAIN output

\* The metadata.json files of the output tree.
MetadataFiles ==
  {q \in DOMAIN output : output[q].kind = "metadata"}

\* C13: every generated metadata file lists 'core' among its dependencies,
\* whatever the plugin's manifest declares, after a full build as after a
\* scoped rebuild by the watcher.
C13_MetadataDependsOnCore ==
  \A q \in MetadataFiles :
    \E i \in DOMAIN output[q].dependencies :
      output[q].dependencies[i] = "core"

\* The client file pattern of a plugin embedded in the core resource.
PluginClientPattern(p) == <<"plugins", p, "client", "*">>

\* Number of times a pattern occurs in a list.
Occurrences(list, x) == Cardinality({i \in DOMAIN list : list[i] = x})

\* C14: after a build in the embedded layout, the core resource.toml of
\* the output tree lists the core client pattern and the client pattern of
\* every built plugin that has client code, each exactly once.
C14_ManifestListsPluginClientFiles ==
  (runs.last.script = "embedded" /\ source.core.dir) =>
    LET manifest == output[OutputCoreDir \o <<"resource.toml">>]
    IN  /\ Occurrences(manifest.clientFiles, <<"client", "*">>) = 1
        /\ \A i \in DOMAIN PluginDirs :
             source.plugins[PluginDirs[i]].client # "none" =>
               Occurrences(manifest.clientFiles,
                           PluginClientPattern(PluginDirs[i])) = 1

\* The full build has run to its end on this tree: buildCore copied the
\* manifest and buildPlugins built every plugin directory.
FullBuildDone == OutputCoreDir \o <<"resource.toml">> \in DOMAIN output

\* C21: on a tree the full build has produced, a scoped rebuild of a plugin
\* by the watcher leaves exactly the tree that the full build's step for
\* that plugin leaves from the same source and tree (same directory, same
\* bundling options on every compiled file, same metadata).
C21_ScopedRebuildMatchesFullBuild ==
  [][\A p \in {"a", "b"} :
       (FullBuildDone /\ rebuildPlugin(p))
         => output' = BuildPluginEmbedded(p, source, output)]_vars

----------------------------------------------------------------------------
(* Server-side reload claims                                                *)

\* C22: a reloadPlugin(id) call made less than 1000 ms after the previous
\* reloadPlugin(id) call for the same id is skipped and emits no reload
\* start, complete or failed event.
C22_RepeatedReloadSkipped ==
  (/\ lastReload.id # "none"
   /\ lastReload.previous # NeverCalled
   /\ lastReload.at - lastReload.previous < ReloadWindow)
    => (lastReload.skipped /\ lastReload.events = << >>)

\* The names of the entries of resources/main/core/plugins, which is what
\* the runtime loader's scanPlugins reads.
ScannedPluginNames ==
  { q[5] : q \in { r \in DOMAIN output :
                     Len(r) >= 5 /\ SubSeq(r, 1, 4) = OutputCoreDir \o <<"plugins">> } }

\* C23: a scoped rebuild is run only for an owner that names a plugin
\* directory under src/plugins, so every plugin output directory and
\* every metadata file under resources/main/core/plugins belongs to one of
\* the plugin directories; a file placed directly in src/plugins adds none.
C23_OnlyPluginDirectoriesBuilt ==
  ScannedPluginNames \subseteq {PluginDirs[i] : i \in DOMAIN PluginDirs}

----------------------------------------------------------------------------
(* Client plugin loader claims                                              *)

\* How many listeners of the plugin a delivery invoked.
InvokedFor(plugin) ==
  Cardinality({i \in DOMAIN lastDelivery.invoked :
                 lastDelivery.invoked[i].plugin = plugin})

\* C25: after any sequence of plugin:init and plugin:reload events, a
\* server event a plugin listens to invokes that plugin's handler exactly
\* once: once when the plugin had been initialised and subscribes to the
\* event, and never more than once.
C25_OneHandlerPerEvent ==
  lastDelivery.event # "none" =>
    \A plugin \in LoaderPluginIds :
      /\ InvokedFor(plugin) <= 1
      /\ (/\ plugin \in lastDelivery.ready
          /\ \E i \in DOMAIN Subscriptions(plugin) :
               Subscriptions(plugin)[i][1] = lastDelivery.event)
           => InvokedFor(plugin) = 1

----------------------------------------------------------------------------
(* Development script claims                                                *)

\* C26: without hot reloading, the host server process is spawned only
\* after the build process has exited and only if the build succeeded: when
\* the build fails, the server is never started.
C26_ServerOnlyAfterGoodBuild ==
  serverProc.state # "none" => (buildProc.state = "exited" /\ buildProc.ok)

----------------------------------------------------------------------------
(* Metadata propagation claims                                              *)

\* Every element of list occurs in longer.
ContainsAll(list, longer) ==
  \A i \in DOMAIN list : \E j \in DOMAIN longer : longer[j] = list[i]

\* C27: the generated metadata file carries each of name, version, author
\* and description the source manifest declares, and every declared
\* dependency in dependencies; a field the manifest does not declare keeps
\* its default (name = the plugin id, version 1.0.0, no author, no
\* description, dependencies ['core']).
C27_MetadataCarriesManifest ==
  metaOut.written =>
    /\ metaOut.name = Extracted(srcManifest, "name", MetaPluginId)
    /\ metaOut.version = Extracted(srcManifest, "version", "1.0.0")
    /\ metaOut.author = Extracted(srcManifest, "author", Undeclared)
    /\ metaOut.description = Extracted(srcManifest, "description", Undeclared)
    /\ IF srcManifest = NoFile \/ srcManifest.deps = << >>
         THEN metaOut.dependencies = <<"core">>
         ELSE ContainsAll(srcManifest.deps, metaOut.dependencies)

----------------------------------------------------------------------------
(* Managed UI webview claims                                                *)

\* C28: game controls are disabled only if at least one currently active
\* managed webview was created with disableControls = true, and the cursor
\* is shown only if at least one currently active managed webview was
\* created with handleCursor = true.
C28_ControlsFollowActiveWebviews ==
  /\ ~controlsEnabled =>
       \E id \in DOMAIN activeWebviews : activeWebviews[id].disableControls
  /\ cursorShown =>
       \E id \in DOMAIN activeWebviews : activeWebviews[id].handleCursor

\* C29: once a managed webview has been closed and no managed webview is
\* active, the cursor stays hidden.
C29_CursorHiddenAfterLastClose ==
  (lastClosed # {} /\ DOMAIN activeWebviews = {}) => ~cursorShown

----------------------------------------------------------------------------
(* Deploy script claims                                                     *)

\* The index of the marker comment in a server.toml that has one inside
\* its resources array, and of the closing bracket after it.
MarkerIndex(lines) ==
  MinOf({i \in DOMAIN lines : lines[i].kind = "marker"})

ClosingIndex(lines) ==
  MinOf({i \in DOMAIN lines :
           i > MarkerIndex(lines) /\ lines[i].kind = "close"})

HasMarker(lines) == \E i \in DOMAIN lines : lines[i].kind = "marker"

\* The directories of plugins/ that contain a resource.toml.
PluginDirectoriesWithManifest ==
  {p \in DOMAIN pluginsTree : pluginsTree[p] = "plugin"}

====
